---- MODULE Spec2Model ----
(***************************************************************************)
(* A model of llsd_modern.hpp: the Value type (a variant whose Array and   *)
(* Map alternatives are unique_ptr to heap containers), its copy and move  *)
(* operations, and the binary codec (parse_binary / format_binary) over a   *)
(* byte stream.                                                            *)
(*                                                                         *)
(* Bytes are the integers 0..255.  Strings are sequences of bytes.  A      *)
(* double is the sequence of the 8 bytes of its bit pattern, most          *)
(* significant byte first.  A Value is a record [t, v]: t names the active *)
(* alternative of Value::variant_type and v is its payload; for Array and  *)
(* Map the payload is the address the unique_ptr holds, Null when it holds *)
(* none.  The heap maps each address to the container stored there.        *)
(***************************************************************************)
EXTENDS Integers, Sequences, FiniteSets, TLC

\* ------------------------------------------------------------------------
\* Tag bytes of the binary wire format (ASCII codes of the characters the
\* source compares against and writes).
TagUndef == 33
TagFalse == 48
TagTrue == 49
TagInt == 105
TagReal == 114
TagString == 115
TagUUID == 117
TagURI == 108
TagBinary == 98
TagDate == 100
TagArrayOpen == 91
TagArrayClose == 93
TagMapOpen == 123
TagMapClose == 125
TagKey == 107

Byte == 0..255

\* The null unique_ptr.
Null == 0

\* ------------------------------------------------------------------------
\* Sequence helpers.
Take(s, n) == SubSeq(s, 1, n)
Drop(s, n) == SubSeq(s, n + 1, Len(s))

RECURSIVE Reverse(_)
Reverse(s) == IF s = <<>> THEN <<>> ELSE Reverse(Tail(s)) \o <<Head(s)>>

\* ------------------------------------------------------------------------
\* The alternatives of Value::variant_type.
Undef == [t |-> "Undef", v |-> 0]
VBool(b) == [t |-> "bool", v |-> b]
VInt(n) == [t |-> "int32", v |-> n]
VReal(bits) == [t |-> "double", v |-> bits]
VString(s) == [t |-> "string", v |-> s]
VUUID(b) == [t |-> "LLUUID", v |-> b]
VDate(tp) == [t |-> "LLDate", v |-> tp]
VURI(s) == [t |-> "URI", v |-> s]
VBinary(b) == [t |-> "Binary", v |-> b]
VArray(a) == [t |-> "Array", v |-> a]
VMap(a) == [t |-> "Map", v |-> a]

IsContainer(val) == val.t \in {"Array", "Map"}

\* ------------------------------------------------------------------------
\* The heap: a sequence of cells indexed by address.  A cell is a
\* std::vector<Value> (k = "Array", items a sequence of Values), a
\* std::map<std::string, Value> (k = "Map", items the entries in key order)
\* or released storage (k = "free").
FreeCell == [k |-> "free", items |-> <<>>]
EmptyHeap == <<>>

Live(h, a) == a \in DOMAIN h /\ h[a].k # "free"

\* operator new: some address that holds no live container.
NewAddr(h) ==
    IF \E a \in DOMAIN h : h[a].k = "free"
    THEN CHOOSE a \in DOMAIN h : h[a].k = "free" /\ \A b \in DOMAIN h : h[b].k = "free" => a <= b
    ELSE Len(h) + 1

Store(h, a, cell) ==
    IF a \in DOMAIN h THEN [h EXCEPT ![a] = cell] ELSE Append(h, cell)

\* operator delete: the storage at a is released.  Released storage at the
\* top of the heap is given back.
RECURSIVE TrimHeap(_)
TrimHeap(h) ==
    IF h # <<>> /\ h[Len(h)].k = "free" THEN TrimHeap(SubSeq(h, 1, Len(h) - 1)) ELSE h
Free(h, a) == TrimHeap([h EXCEPT ![a] = FreeCell])

\* std::string operator< : lexicographic over unsigned bytes.
RECURSIVE KeyLess(_, _)
KeyLess(x, y) ==
    IF y = <<>> THEN FALSE
    ELSE IF x = <<>> THEN TRUE
    ELSE IF Head(x) # Head(y) THEN Head(x) < Head(y)
    ELSE KeyLess(Tail(x), Tail(y))

\* std::map::find: the index of the entry with this key, 0 when absent.
MapFind(items, key) ==
    IF \E i \in 1..Len(items) : items[i].key = key
    THEN CHOOSE i \in 1..Len(items) : items[i].key = key
    ELSE 0

\* std::map::operator[] : the entries with a default-constructed Value
\* inserted at the key's place when the key is absent.
MapSubscript(items, key) ==
    IF MapFind(items, key) # 0 THEN items
    ELSE LET n == Cardinality({i \in 1..Len(items) : KeyLess(items[i].key, key)})
         IN  Take(items, n) \o <<[key |-> key, val |-> Undef]>> \o Drop(items, n)

\* ------------------------------------------------------------------------
\* Reading a container through a pointer.  Reading through a null or a
\* released pointer is undefined; the model marks what was read as wild.
WildCell == [k |-> "wild", items |-> <<>>]
Deref(h, a) == IF Live(h, a) THEN h[a] ELSE WildCell

\* The Values a container holds, in iteration order.
CellValues(cell) ==
    IF cell.k = "Map" THEN [i \in 1..Len(cell.items) |-> cell.items[i].val]
    ELSE cell.items

\* ~Value(): a unique_ptr alternative deletes its container, whose
\* destructor destroys the Values it holds.
RECURSIVE Release(_, _)
RECURSIVE ReleaseSeq(_, _)
\* (NoRelease is the faulty variant that deletes nothing.)
NoRelease(h, val) == h
Release(h, val) ==
    IF IsContainer(val) /\ Live(h, val.v)
    THEN Free(ReleaseSeq(h, CellValues(h[val.v])), val.v)
    ELSE h
ReleaseSeq(h, vals) ==
    IF vals = <<>> THEN h ELSE ReleaseSeq(Release(h, Head(vals)), Tail(vals))

\* Value::Value(const Value& other): make_unique<Array>(*arg) and
\* make_unique<Map>(*arg) copy-construct every element, so the clone is
\* deep; a null pointer is copied as a null pointer of the same kind.  The
\* result is the new Value and the heap holding its containers.
RECURSIVE CopyValue(_, _)
RECURSIVE CopyArrayItems(_, _, _)
RECURSIVE CopyMapItems(_, _, _)
\* (ShallowCopyValue and CopyMapItemsShared are the faulty variants that copy
\* the pointer instead of the container, at the top and below it.)
ShallowCopyValue(h, other) == [heap |-> h, val |-> other]
CopyMapItemsShared(h, src, acc) == [heap |-> h, items |-> acc \o src]
CopyValue(h, other) ==
    IF other.t = "Array" THEN
        IF other.v # Null THEN
            LET a == NewAddr(h)
                r == CopyArrayItems(Store(h, a, [k |-> "Array", items |-> <<>>]),
                                    Deref(h, other.v).items, <<>>)
            IN  [heap |-> Store(r.heap, a, [k |-> "Array", items |-> r.items]),
                 val |-> VArray(a)]
        ELSE [heap |-> h, val |-> VArray(Null)]
    ELSE IF other.t = "Map" THEN
        IF other.v # Null THEN
            LET a == NewAddr(h)
                r == CopyMapItems(Store(h, a, [k |-> "Map", items |-> <<>>]),
                                  Deref(h, other.v).items, <<>>)
            IN  [heap |-> Store(r.heap, a, [k |-> "Map", items |-> r.items]),
                 val |-> VMap(a)]
        ELSE [heap |-> h, val |-> VMap(Null)]
    ELSE [heap |-> h, val |-> other]
CopyArrayItems(h, src, acc) ==
    IF src = <<>> THEN [heap |-> h, items |-> acc]
    ELSE LET c == CopyValue(h, Head(src))
         IN  CopyArrayItems(c.heap, Tail(src), Append(acc, c.val))
CopyMapItems(h, src, acc) ==
    IF src = <<>> THEN [heap |-> h, items |-> acc]
    ELSE LET c == CopyValue(h, Head(src).val)
         IN  CopyMapItems(c.heap, Tail(src),
                          Append(acc, [key |-> Head(src).key, val |-> c.val]))

\* Value(Value&&) = default: the variant moves its active alternative.  A
\* moved-from unique_ptr is null; the alternative stays the same.
\* (MovedFromKept is the faulty variant that leaves the source its pointer.)
MovedFromKept(val) == val
MovedFrom(val) == IF IsContainer(val) THEN [val EXCEPT !.v = Null] ELSE val

\* The contents of a Value as a tree: what a traversal through the
\* pointers observes.  Two Values are structurally equal when their trees
\* are equal.
RECURSIVE Contents(_, _)
Contents(h, val) ==
    IF ~IsContainer(val) THEN val
    ELSE IF val.v = Null THEN [t |-> val.t, v |-> [null |-> TRUE, items |-> <<>>]]
    ELSE IF ~Live(h, val.v)
    THEN [t |-> val.t, v |-> [null |-> FALSE, items |-> <<[t |-> "dangling", v |-> 0]>>]]
    ELSE IF val.t = "Array"
    THEN [t |-> val.t,
          v |-> [null |-> FALSE,
                 items |-> [i \in 1..Len(h[val.v].items) |->
                               Contents(h, h[val.v].items[i])]]]
    ELSE [t |-> val.t,
          v |-> [null |-> FALSE,
                 items |-> [i \in 1..Len(h[val.v].items) |->
                               [key |-> h[val.v].items[i].key,
                                val |-> Contents(h, h[val.v].items[i].val)]]]]

\* Every address a Value reaches, with multiplicity: one entry per pointer
\* that holds it.
RECURSIVE Pointers(_, _)
RECURSIVE PointersSeq(_, _)
Pointers(h, val) ==
    IF ~IsContainer(val) \/ val.v = Null THEN <<>>
    ELSE <<val.v>> \o (IF Live(h, val.v) THEN PointersSeq(h, CellValues(h[val.v])) ELSE <<>>)
PointersSeq(h, vals) ==
    IF vals = <<>> THEN <<>> ELSE Pointers(h, Head(vals)) \o PointersSeq(h, Tail(vals))

\* ------------------------------------------------------------------------
\* 64-bit quantities.  The checker's integers are 32 bits wide, so an
\* int64 (a system_clock tick count) is the sequence of its 8 bytes in
\* two's complement, most significant first, and arithmetic on magnitudes
\* is done on limbs base 256, least significant first, without high zero
\* limbs.
Pow2(n) == 2 ^ n

RECURSIVE BigNorm(_)
BigNorm(x) ==
    IF x # <<>> /\ x[Len(x)] = 0 THEN BigNorm(Take(x, Len(x) - 1)) ELSE x

\* x * k + carry, for k < 2^22.
RECURSIVE BigMulSmall(_, _, _)
BigMulSmall(x, k, carry) ==
    IF x = <<>>
    THEN IF carry = 0 THEN <<>>
         ELSE <<carry % 256>> \o BigMulSmall(<<>>, k, carry \div 256)
    ELSE LET p == Head(x) * k + carry
         IN  <<p % 256>> \o BigMulSmall(Tail(x), k, p \div 256)

\* Long division by k < 2^22, most significant limb first.
RECURSIVE BigDivStep(_, _, _, _)
BigDivStep(xs, k, rem, q) ==
    IF xs = <<>> THEN [q |-> q, r |-> rem]
    ELSE LET cur == rem * 256 + Head(xs)
         IN  BigDivStep(Tail(xs), k, cur % k, Append(q, cur \div k))
BigDivSmall(x, k) ==
    LET d == BigDivStep(Reverse(x), k, 0, <<>>)
    IN  [q |-> BigNorm(Reverse(d.q)), r |-> d.r]

RECURSIVE BitsOf(_)
BitsOf(n) == IF n = 0 THEN 0 ELSE 1 + BitsOf(n \div 2)
BigBitLen(x) == IF x = <<>> THEN 0 ELSE 8 * (Len(x) - 1) + BitsOf(x[Len(x)])

BigShl(x, n) ==
    IF x = <<>> THEN <<>>
    ELSE BigNorm(BigMulSmall([i \in 1..(n \div 8) |-> 0] \o x, Pow2(n % 8), 0))
BigShr(x, n) ==
    IF n \div 8 >= Len(x) THEN <<>>
    ELSE BigDivSmall(Drop(x, n \div 8), Pow2(n % 8)).q
BigBit(x, i) ==
    IF (i \div 8) + 1 > Len(x) THEN 0 ELSE (x[(i \div 8) + 1] \div Pow2(i % 8)) % 2
BigInc(x) == BigNorm(BigMulSmall(x, 1, 1))

\* x / 2^s rounded to nearest, ties to even; sticky says that nonzero
\* digits below x were already dropped.
BigRoundUp(q, guard, rest) ==
    IF guard /\ (rest \/ BigBit(q, 0) = 1) THEN BigInc(q) ELSE q
BigRoundShift(x, s, sticky) ==
    BigRoundUp(BigShr(x, s),
               IF s >= 1 THEN BigBit(x, s - 1) = 1 ELSE FALSE,
               sticky \/ (s >= 2 /\ BigShl(BigShr(x, s - 1), s - 1) # x))

\* x rounded to a 53-bit significand: [m, s] with value m * 2^s.
To53Carry(m, bl) ==
    IF BigBitLen(m) = 54 THEN [m |-> BigShr(m, 1), s |-> bl - 52]
    ELSE [m |-> m, s |-> bl - 53]
To53Len(x, sticky, bl) ==
    IF bl <= 53 THEN [m |-> x, s |-> 0]
    ELSE To53Carry(BigRoundShift(x, bl - 53, sticky), bl)
To53(x, sticky) == To53Len(x, sticky, BigBitLen(x))

\* The limbs of x padded with high zero limbs to n limbs.
BigPad(x, n) == x \o [i \in 1..(n - Len(x)) |-> 0]

\* int64 <-> sign and magnitude.
I64Neg(tp) == tp[1] >= 128
RECURSIVE BigComplement(_)
BigComplement(x) ==
    IF x = <<>> THEN <<>> ELSE <<255 - Head(x)>> \o BigComplement(Tail(x))
I64Mag(tp) ==
    IF I64Neg(tp) THEN BigNorm(Take(BigPad(BigInc(BigComplement(Reverse(tp))), 8), 8))
    ELSE BigNorm(Reverse(tp))
I64Make(neg, mag) ==
    IF neg /\ mag # <<>>
    THEN Reverse(Take(BigPad(BigInc(BigComplement(BigPad(mag, 8))), 8), 8))
    ELSE Reverse(BigPad(mag, 8))
I64Zero == <<0, 0, 0, 0, 0, 0, 0, 0>>
I64Min == <<128, 0, 0, 0, 0, 0, 0, 0>>
I64Max == <<127, 255, 255, 255, 255, 255, 255, 255>>

\* The IEEE-754 double with sign neg and value m * 2^e, m a 53-bit
\* significand with its top bit set, as its 8 bytes, most significant first.
DoubleBits(neg, m, e) ==
    LET bexp == e + 1075
        l == BigPad(m, 7)
    IN  <<(IF neg THEN 128 ELSE 0) + (bexp \div 16),
          ((bexp % 16) * 16) + (l[7] % 16), l[6], l[5], l[4], l[3], l[2], l[1]>>
DoubleExp(bits) == ((bits[1] % 128) * 16) + (bits[2] \div 16)
DoubleNeg(bits) == bits[1] >= 128
\* The significand as a natural, the hidden bit included.
DoubleSig(bits) ==
    BigNorm(<<bits[8], bits[7], bits[6], bits[5], bits[4], bits[3],
              (bits[2] % 16) + (IF DoubleExp(bits) # 0 THEN 16 ELSE 0)>>)

\* system_clock::duration is nanoseconds: 10^9 = 5^9 * 2^9 ticks a second.
FiveToNine == 1953125
TwoToNineExp == 9

\* std::chrono::duration<double>(time_since_epoch()).count():
\* static_cast<double>(ticks) / 1e9, both steps rounding to nearest.
DoubleQuotient(neg, r, scale) == DoubleBits(neg, r.m, r.s + scale)
DoubleDivide(neg, d, scale) == DoubleQuotient(neg, To53(d.q, d.r # 0), scale)
DoubleOverNine(neg, x, t) ==
    DoubleDivide(neg, BigDivSmall(BigShl(x.m, t), FiveToNine), x.s - t - TwoToNineExp)
DoubleOfTicks(neg, x) == DoubleOverNine(neg, x, 85 - BigBitLen(x.m))
DurationToDouble(tp) ==
    IF I64Mag(tp) = <<>> THEN I64Zero
    ELSE DoubleOfTicks(I64Neg(tp), To53(I64Mag(tp), FALSE))

\* duration_cast<system_clock::duration>(duration<double>(seconds)):
\* static_cast<int64>(seconds * 1e9), the product rounded to nearest and
\* the cast truncating toward zero.  The cast of a NaN, an infinity or a
\* value outside the int64 range is undefined: wild is what it yields.
\* (-2^63, a power of two of 64 bits, is in range.)
TicksOfProduct(neg, m, e, wild) ==
    IF m = <<>> THEN I64Zero
    ELSE IF e >= 0 /\ BigBitLen(m) + e > 63
    THEN IF neg /\ BigBitLen(m) + e = 64 /\ m = BigShl(<<1>>, BigBitLen(m) - 1)
         THEN I64Min ELSE wild
    ELSE I64Make(neg, IF e >= 0 THEN BigShl(m, e) ELSE BigShr(m, 0 - e))
TicksOfDouble(neg, ex, p, wild) ==
    IF ex = 2047 THEN wild
    ELSE TicksOfProduct(neg, p.m, (IF ex = 0 THEN 1 ELSE ex) - 1075 + TwoToNineExp + p.s, wild)
DoubleToDuration(bits, wild) ==
    TicksOfDouble(DoubleNeg(bits), DoubleExp(bits),
                  To53(BigNorm(BigMulSmall(DoubleSig(bits), FiveToNine, 0)), FALSE), wild)

\* ------------------------------------------------------------------------
\* The input stream: the bytes it holds, the read position and whether no
\* error bit is set.  Once an error bit is set every read extracts nothing.
MakeStream(data) == [data |-> data, pos |-> 0, good |-> TRUE]

\* istream::get(char& c): extracts one byte into c; at the end of the
\* stream it sets eofbit|failbit and leaves c as it was.
StreamGet(s, c) ==
    IF s.good /\ s.pos < Len(s.data)
    THEN [s |-> [s EXCEPT !.pos = @ + 1], c |-> s.data[s.pos + 1]]
    ELSE [s |-> [s EXCEPT !.good = FALSE], c |-> c]

\* istream::read(buf, n): extracts n bytes, or what is left (then setting
\* eofbit|failbit); gcount() is the number extracted.
StreamRead(s, n) ==
    IF ~s.good THEN [s |-> s, data |-> <<>>, gcount |-> 0]
    ELSE LET avail == Len(s.data) - s.pos
             k == IF n <= avail THEN n ELSE avail
         IN  [s |-> [s EXCEPT !.pos = @ + k, !.good = (k = n)],
              data |-> SubSeq(s.data, s.pos + 1, s.pos + k),
              gcount |-> k]

\* detail::read_bytes: throws unless n bytes were extracted.
\* (read_bytes_unchecked is the faulty variant without the gcount test,
\* the buffer keeping its zeros where nothing was extracted.)
read_bytes_unchecked(s, n) ==
    LET r == StreamRead(s, n)
    IN  [err |-> FALSE, s |-> r.s,
         data |-> r.data \o [i \in 1..(n - r.gcount) |-> 0]]
read_bytes(s, n) ==
    LET r == StreamRead(s, n)
    IN  [err |-> r.gcount # n, s |-> r.s, data |-> r.data]

\* The int32 with these four bytes, most significant first.
Int32OfBytes(b) ==
    ((IF b[1] >= 128 THEN b[1] - 256 ELSE b[1]) * 16777216)
        + (b[2] * 65536) + (b[3] * 256) + b[4]

\* detail::read_i32_be
read_i32_be(s) ==
    LET r == read_bytes(s, 4)
    IN  [err |-> r.err, s |-> r.s, val |-> IF r.err THEN 0 ELSE Int32OfBytes(r.data)]

\* detail::read_double_be and read_double_le: the bit pattern assembled
\* from the 8 bytes, first byte most (resp. least) significant.
read_double_be(s) ==
    LET r == read_bytes(s, 8)
    IN  [err |-> r.err, s |-> r.s, bits |-> r.data]
read_double_le(s) ==
    LET r == read_bytes(s, 8)
    IN  [err |-> r.err, s |-> r.s, bits |-> Reverse(r.data)]

\* detail::read_string: a 4-byte length, negative refused, then the bytes.
read_string(s) ==
    LET size == read_i32_be(s)
        r == StreamRead(size.s, size.val)
    IN  IF size.err THEN [err |-> TRUE, s |-> size.s, str |-> <<>>]
        ELSE IF size.val < 0 THEN [err |-> TRUE, s |-> size.s, str |-> <<>>]
        ELSE [err |-> r.gcount # size.val, s |-> r.s, str |-> r.data]

\* ------------------------------------------------------------------------
\* detail::write_i32_be: (val >> 24) & 0xFF, ..., val & 0xFF.
\* (write_i32_le is the faulty variant that writes the least significant
\* byte first.)
write_i32_le(val) ==
    LET w == IF val < 0 THEN (val + 2147483647) + 1 ELSE val
    IN  <<w % 256, (w \div 256) % 256, (w \div 65536) % 256,
          (w \div 16777216) + (IF val < 0 THEN 128 ELSE 0)>>
write_i32_be(val) ==
    LET w == IF val < 0 THEN (val + 2147483647) + 1 ELSE val
    IN  <<(w \div 16777216) + (IF val < 0 THEN 128 ELSE 0),
          (w \div 65536) % 256, (w \div 256) % 256, w % 256>>

\* detail::write_double_be and write_double_le: the 8 bytes of the bit
\* pattern, most (resp. least) significant first.
write_double_be(bits) == bits
write_double_le(bits) == Reverse(bits)

\* detail::write_string
write_string(str) == write_i32_be(Len(str)) \o str

\* detail::_format_binary_recurse and format_binary: the bytes written for
\* a Value.  A byte of -1 stands for what a read through a null or released
\* pointer would have produced.
RECURSIVE format_binary(_, _)
RECURSIVE FormatArrayItems(_, _)
RECURSIVE FormatMapItems(_, _)
FormatArrayNoNullCheck(h, v) ==
    IF ~Live(h, v.v) THEN <<TagArrayOpen, -1, TagArrayClose>>
    ELSE <<TagArrayOpen>> \o write_i32_be(Len(h[v.v].items))
            \o FormatArrayItems(h, h[v.v].items) \o <<TagArrayClose>>
FormatArray(h, v) ==
    <<TagArrayOpen>>
        \o (IF v.v # Null
            THEN IF ~Live(h, v.v) THEN <<-1>>
                 ELSE write_i32_be(Len(h[v.v].items)) \o FormatArrayItems(h, h[v.v].items)
            ELSE write_i32_be(0))
        \o <<TagArrayClose>>
FormatMap(h, v) ==
    <<TagMapOpen>>
        \o (IF v.v # Null
            THEN IF ~Live(h, v.v) THEN <<-1>>
                 ELSE write_i32_be(Len(h[v.v].items)) \o FormatMapItems(h, h[v.v].items)
            ELSE write_i32_be(0))
        \o <<TagMapClose>>
format_binary(h, v) ==
    CASE v.t = "Undef" -> <<TagUndef>>
      [] v.t = "bool" -> <<IF v.v THEN TagTrue ELSE TagFalse>>
      [] v.t = "int32" -> <<TagInt>> \o write_i32_be(v.v)
      [] v.t = "double" -> <<TagReal>> \o write_double_be(v.v)
      [] v.t = "string" -> <<TagString>> \o write_string(v.v)
      [] v.t = "LLUUID" -> <<TagUUID>> \o v.v
      [] v.t = "LLDate" -> <<TagDate>> \o write_double_le(DurationToDouble(v.v))
      [] v.t = "URI" -> <<TagURI>> \o write_string(v.v)
      [] v.t = "Binary" -> <<TagBinary>> \o write_i32_be(Len(v.v)) \o v.v
      [] v.t = "Array" -> FormatArray(h, v)
      [] v.t = "Map" -> FormatMap(h, v)
FormatArrayItems(h, items) ==
    IF items = <<>> THEN <<>>
    ELSE format_binary(h, Head(items)) \o FormatArrayItems(h, Tail(items))
FormatMapItems(h, items) ==
    IF items = <<>> THEN <<>>
    ELSE <<TagKey>> \o write_string(Head(items).key)
            \o format_binary(h, Head(items).val) \o FormatMapItems(h, Tail(items))

\* ------------------------------------------------------------------------
\* (*map)[key] = std::move(value): operator[] finds or inserts the entry,
\* and the move assignment destroys what the entry held.
\* (MapAssignKeepFirst is the faulty variant that leaves an entry already
\* present as it is, as std::map::insert would.)
MapAssignKeepFirst(h, a, key, val) ==
    IF MapFind(h[a].items, key) # 0 THEN Release(h, val)
    ELSE LET items == MapSubscript(h[a].items, key)
         IN  Store(h, a, [k |-> "Map", items |-> [items EXCEPT ![MapFind(items, key)].val = val]])
MapAssign(h, a, key, val) ==
    LET items == MapSubscript(h[a].items, key)
        i == MapFind(items, key)
        h1 == Release(h, items[i].val)
    IN  Store(h1, a, [k |-> "Map", items |-> [items EXCEPT ![i].val = val]])

\* array->push_back(std::move(value))
ArrayPush(h, a, val) ==
    Store(h, a, [k |-> "Array", items |-> Append(h[a].items, val)])

\* What a call of parse_binary yields: err says that it threw; otherwise val
\* is the Value returned.  s is the stream and heap the heap it leaves.
Throw(s, h) == [err |-> TRUE, val |-> Undef, s |-> s, heap |-> h]
Return(val, s, h) == [err |-> FALSE, val |-> val, s |-> s, heap |-> h]

\* parse_binary.  type_char is uninitialized when s.get() extracts nothing,
\* and the switch then reads an indeterminate byte: ub.tc is that byte.
\* ub.i64 is what the undefined double-to-int64 cast of a Date yields.
\* An exception unwinds through the unique_ptr locals, which release the
\* container built so far.
RECURSIVE parse_binary(_, _, _)
RECURSIVE ParseMapLoop(_, _, _, _, _, _, _)
RECURSIVE ParseArrayLoop(_, _, _, _, _, _, _)
ParseMapClose(s, h, map, tc) ==
    LET g == StreamGet(s, tc)
    IN  IF g.c # TagMapClose THEN Throw(g.s, Release(h, VMap(map)))
        ELSE Return(VMap(map), g.s, h)
\* (ParseArrayClosePeek is the faulty variant that looks at the closing
\* tag without extracting it.)
ParseArrayClosePeek(s, h, array, tc) ==
    IF s.good /\ s.pos < Len(s.data) /\ s.data[s.pos + 1] = TagArrayClose
    THEN Return(VArray(array), s, h)
    ELSE Throw(s, Release(h, VArray(array)))
ParseArrayClose(s, h, array, tc) ==
    LET g == StreamGet(s, tc)
    IN  IF g.c # TagArrayClose THEN Throw(g.s, Release(h, VArray(array)))
        ELSE Return(VArray(array), g.s, h)
\* (*map)[key] = parse_binary(s), r being what parse_binary(s) came to.
ParseMapEntry(r, key, ub, map, i, size, tc) ==
    IF r.err THEN Throw(r.s, Release(r.heap, VMap(map)))
    ELSE ParseMapLoop(r.s, MapAssign(r.heap, map, key, r.val), ub, map, i + 1, size, tc)
\* std::string key = detail::read_string(s), then the entry.
ParseMapKey(key, h, ub, map, i, size, tc) ==
    IF key.err THEN Throw(key.s, Release(h, VMap(map)))
    ELSE ParseMapEntry(parse_binary(key.s, h, ub), key.str, ub, map, i, size, tc)
\* s.get(type_char), g being its outcome, and the test for 'k'.
\* (ParseMapTagAny is the faulty variant without the test.)
ParseMapTagAny(g, h, ub, map, i, size) ==
    ParseMapKey(read_string(g.s), h, ub, map, i, size, g.c)
ParseMapTag(g, h, ub, map, i, size) ==
    IF g.c # TagKey THEN Throw(g.s, Release(h, VMap(map)))
    ELSE ParseMapKey(read_string(g.s), h, ub, map, i, size, g.c)
ParseMapLoop(s, h, ub, map, i, size, tc) ==
    IF i < size THEN ParseMapTag(StreamGet(s, tc), h, ub, map, i, size)
    ELSE ParseMapClose(s, h, map, tc)
\* array->push_back(parse_binary(s)), r being what parse_binary(s) came to.
\* Once the stream has failed, an element that is returned all the same is
\* an indeterminate scalar and every later iteration repeats it, leaving the
\* stream as it is: the loop is cut short there and goes to the test of the
\* closing tag.
ParseArrayElement(r, ub, array, i, size, tc) ==
    IF r.err THEN Throw(r.s, Release(r.heap, VArray(array)))
    ELSE IF ~r.s.good
    THEN ParseArrayClose(r.s, ArrayPush(r.heap, array, r.val), array, tc)
    ELSE ParseArrayLoop(r.s, ArrayPush(r.heap, array, r.val), ub, array, i + 1, size, tc)
ParseArrayLoop(s, h, ub, array, i, size, tc) ==
    IF i < size THEN ParseArrayElement(parse_binary(s, h, ub), ub, array, i, size, tc)
    ELSE ParseArrayClose(s, h, array, tc)
ParseMap(s, h, ub, tc) ==
    LET map == NewAddr(h)
        h1 == Store(h, map, [k |-> "Map", items |-> <<>>])
        size == read_i32_be(s)
    IN  IF size.err THEN Throw(size.s, Release(h1, VMap(map)))
        ELSE ParseMapLoop(size.s, h1, ub, map, 0, size.val, tc)
\* array->reserve(size) throws std::length_error for a negative size, which
\* converts to a size_type above max_size().
ParseArray(s, h, ub, tc) ==
    LET array == NewAddr(h)
        h1 == Store(h, array, [k |-> "Array", items |-> <<>>])
        size == read_i32_be(s)
    IN  IF size.err THEN Throw(size.s, Release(h1, VArray(array)))
        ELSE IF size.val < 0 THEN Throw(size.s, Release(h1, VArray(array)))
        ELSE ParseArrayLoop(size.s, h1, ub, array, 0, size.val, tc)
ParseInt(s, h) ==
    LET r == read_i32_be(s)
    IN  IF r.err THEN Throw(r.s, h) ELSE Return(VInt(r.val), r.s, h)
ParseReal(s, h) ==
    LET r == read_double_be(s)
    IN  IF r.err THEN Throw(r.s, h) ELSE Return(VReal(r.bits), r.s, h)
ParseUUID(s, h) ==
    LET r == read_bytes(s, 16)
    IN  IF r.err THEN Throw(r.s, h) ELSE Return(VUUID(r.data), r.s, h)
ParseString(s, h) ==
    LET r == read_string(s)
    IN  IF r.err THEN Throw(r.s, h) ELSE Return(VString(r.str), r.s, h)
ParseURI(s, h) ==
    LET r == read_string(s)
    IN  IF r.err THEN Throw(r.s, h) ELSE Return(VURI(r.str), r.s, h)
ParseDate(s, h, ub) ==
    LET r == read_double_le(s)
    IN  IF r.err THEN Throw(r.s, h)
        ELSE Return(VDate(DoubleToDuration(r.bits, ub.i64)), r.s, h)
ParseBinary(s, h) ==
    LET size == read_i32_be(s)
        r == read_bytes(size.s, size.val)
    IN  IF size.err THEN Throw(size.s, h)
        ELSE IF size.val < 0 THEN Throw(size.s, h)
        ELSE IF r.err THEN Throw(r.s, h)
        ELSE Return(VBinary(r.data), r.s, h)
parse_binary(s, h, ub) ==
    LET g == StreamGet(s, ub.tc)
        tc == g.c
    IN  CASE tc = TagMapOpen -> ParseMap(g.s, h, ub, tc)
          [] tc = TagArrayOpen -> ParseArray(g.s, h, ub, tc)
          [] tc = TagUndef -> Return(Undef, g.s, h)
          [] tc = TagFalse -> Return(VBool(FALSE), g.s, h)
          [] tc = TagTrue -> Return(VBool(TRUE), g.s, h)
          [] tc = TagInt -> ParseInt(g.s, h)
          [] tc = TagReal -> ParseReal(g.s, h)
          [] tc = TagUUID -> ParseUUID(g.s, h)
          [] tc = TagString -> ParseString(g.s, h)
          [] tc = TagURI -> ParseURI(g.s, h)
          [] tc = TagDate -> ParseDate(g.s, h, ub)
          [] tc = TagBinary -> ParseBinary(g.s, h)
          [] OTHER -> Throw(g.s, h)

\* ------------------------------------------------------------------------
\* The JSON side.  A nlohmann::json value is a tree: null, boolean,
\* integer (number_integer and number_unsigned, as sign and magnitude),
\* float (the 8 bytes of the double), string (bytes), array, object (the
\* entries of a std::map, in key order).
JNull == [j |-> "null", v |-> 0]
JBool(b) == [j |-> "boolean", v |-> b]
JInt(neg, mag) == [j |-> "integer", v |-> [neg |-> neg, mag |-> mag]]
JFloat(bits) == [j |-> "float", v |-> bits]
JString(str) == [j |-> "string", v |-> str]
JArray(items) == [j |-> "array", v |-> items]
JObject(entries) == [j |-> "object", v |-> entries]

\* The magnitude of an int32 as limbs.
BigOfNat(n) == BigNorm(<<n % 256, (n \div 256) % 256, (n \div 65536) % 256, n \div 16777216>>)
JOfInt32(n) ==
    IF n >= 0 THEN JInt(FALSE, BigOfNat(n))
    ELSE JInt(TRUE, BigInc(BigOfNat(0 - (n + 1))))
\* The value of at most three limbs.
BigToNat(x) ==
    (IF Len(x) >= 1 THEN x[1] ELSE 0) + (IF Len(x) >= 2 THEN x[2] * 256 ELSE 0)
        + (IF Len(x) >= 3 THEN x[3] * 65536 ELSE 0)

\* Two lowercase hex digits, as operator<< writes a byte under std::hex,
\* setw(2) and setfill('0').
HexDigit(n) == IF n < 10 THEN 48 + n ELSE 87 + n
\* (HexByteUnfilled is the faulty variant without setw(2): a byte below 16
\* is written as one digit.)
HexByteUnfilled(b) == IF b < 16 THEN <<HexDigit(b)>> ELSE <<HexDigit(b \div 16), HexDigit(b % 16)>>
HexByte(b) == <<HexDigit(b \div 16), HexDigit(b % 16)>>
RECURSIVE HexBytes(_)
HexBytes(bytes) ==
    IF bytes = <<>> THEN <<>> ELSE HexByte(Head(bytes)) \o HexBytes(Tail(bytes))
\* LLUUID::toString
UUIDToString(b) ==
    HexBytes(SubSeq(b, 1, 4)) \o <<45>> \o HexBytes(SubSeq(b, 5, 6)) \o <<45>>
        \o HexBytes(SubSeq(b, 7, 8)) \o <<45>> \o HexBytes(SubSeq(b, 9, 10)) \o <<45>>
        \o HexBytes(SubSeq(b, 11, 16))

\* system_clock::to_time_t: duration_cast<seconds>, truncating toward
\* zero, as [neg, days, secs]: the whole days and the seconds of the day of
\* the magnitude.
SecondsInDay == 86400
TimeSplit(neg, d) == [neg |-> neg, days |-> BigToNat(d.q), secs |-> d.r]
ToTimeT(tp) ==
    TimeSplit(I64Neg(tp),
              BigDivSmall(BigShr(BigDivSmall(I64Mag(tp), FiveToNine).q, TwoToNineExp),
                          SecondsInDay))
\* gmtime: the day (counted from 1970-01-01, downwards before it) and the
\* second of that day.
GmDay(t) ==
    IF ~t.neg THEN t.days ELSE IF t.secs = 0 THEN 0 - t.days ELSE 0 - t.days - 1
GmSecond(t) == IF ~t.neg \/ t.secs = 0 THEN t.secs ELSE SecondsInDay - t.secs
\* gmtime: the civil date of a day, as [y, m, d].
CivilOfDoy(e, yoe, doy, mp) ==
    [y |-> yoe + e * 400 + (IF mp >= 10 THEN 1 ELSE 0),
     m |-> IF mp < 10 THEN mp + 3 ELSE mp - 9,
     d |-> doy - ((153 * mp + 2) \div 5) + 1]
CivilOfYoe(e, doe, yoe) ==
    CivilOfDoy(e, yoe,
               doe - (365 * yoe + (yoe \div 4) - (yoe \div 100)),
               (5 * (doe - (365 * yoe + (yoe \div 4) - (yoe \div 100))) + 2) \div 153)
CivilOfDoe(e, doe) ==
    CivilOfYoe(e, doe,
               (doe - (doe \div 1460) + (doe \div 36524) - (doe \div 146096)) \div 365)
CivilFromDays(z) ==
    CivilOfDoe((z + 719468) \div 146097, (z + 719468) % 146097)
\* Decimal digits, zero padded to a width.
Dec2(n) == <<48 + ((n \div 10) % 10), 48 + (n % 10)>>
Dec4(n) == Dec2(n \div 100) \o Dec2(n % 100)
\* put_time(tm, "%Y-%m-%dT%H:%M:%SZ")
PutTime(c, sec) ==
    Dec4(c.y) \o <<45>> \o Dec2(c.m) \o <<45>> \o Dec2(c.d) \o <<84>>
        \o Dec2(sec \div 3600) \o <<58>> \o Dec2((sec \div 60) % 60) \o <<58>>
        \o Dec2(sec % 60) \o <<90>>
\* LLDate::toString
DateToString(tp) == PutTime(CivilFromDays(GmDay(ToTimeT(tp))), GmSecond(ToTimeT(tp)))

\* The base64 alphabet, and the encoding to_json gives a Binary.
B64Char(i) ==
    IF i < 26 THEN 65 + i ELSE IF i < 52 THEN 71 + i
    ELSE IF i < 62 THEN i - 4 ELSE IF i = 62 THEN 43 ELSE 47
\* (B64GroupUnpadded is the faulty variant that writes no '=' for the bytes
\* a last group lacks.)
B64GroupUnpadded(b, i) ==
    <<B64Char(b[i + 1] \div 4),
      B64Char(((b[i + 1] % 4) * 16) + (IF i + 1 < Len(b) THEN b[i + 2] \div 16 ELSE 0))>>
    \o (IF i + 1 < Len(b)
        THEN <<B64Char(((b[i + 2] % 16) * 4) + (IF i + 2 < Len(b) THEN b[i + 3] \div 64 ELSE 0))>>
        ELSE <<>>)
    \o (IF i + 2 < Len(b) THEN <<B64Char(b[i + 3] % 64)>> ELSE <<>>)
B64Group(b, i) ==
    <<B64Char(b[i + 1] \div 4),
      B64Char(((b[i + 1] % 4) * 16) + (IF i + 1 < Len(b) THEN b[i + 2] \div 16 ELSE 0)),
      IF i + 1 < Len(b)
      THEN B64Char(((b[i + 2] % 16) * 4) + (IF i + 2 < Len(b) THEN b[i + 3] \div 64 ELSE 0))
      ELSE 61,
      IF i + 2 < Len(b) THEN B64Char(b[i + 3] % 64) ELSE 61>>
RECURSIVE B64Encode(_, _)
B64Encode(b, i) == IF i < Len(b) THEN B64Group(b, i) \o B64Encode(b, i + 3) ELSE <<>>
\* "data:base64,"
DataBase64 == <<100, 97, 116, 97, 58, 98, 97, 115, 101, 54, 52, 44>>

\* obj[key] = value on the entries of a nlohmann object.
JObjectSet(entries, key, val) ==
    [MapSubscript(entries, key) EXCEPT ![MapFind(MapSubscript(entries, key), key)].val = val]

\* detail::to_json
RECURSIVE to_json(_, _)
RECURSIVE ToJsonItems(_, _, _)
RECURSIVE ToJsonEntries(_, _, _)
to_json(h, val) ==
    CASE val.t = "Undef" -> JNull
      [] val.t = "LLUUID" -> JString(UUIDToString(val.v))
      [] val.t = "LLDate" -> JString(DateToString(val.v))
      [] val.t = "URI" -> JString(val.v)
      [] val.t = "Binary" -> JString(DataBase64 \o B64Encode(val.v, 0))
      [] val.t = "Array" ->
            IF val.v = Null THEN JArray(<<>>)
            ELSE ToJsonItems(h, Deref(h, val.v).items, <<>>)
      [] val.t = "Map" ->
            IF val.v = Null THEN JObject(<<>>)
            ELSE ToJsonEntries(h, Deref(h, val.v).items, <<>>)
      [] val.t = "bool" -> JBool(val.v)
      [] val.t = "int32" -> JOfInt32(val.v)
      [] val.t = "double" -> JFloat(val.v)
      [] val.t = "string" -> JString(val.v)
ToJsonItems(h, items, arr) ==
    IF items = <<>> THEN JArray(arr)
    ELSE ToJsonItems(h, Tail(items), Append(arr, to_json(h, Head(items))))
ToJsonEntries(h, entries, obj) ==
    IF entries = <<>> THEN JObject(obj)
    ELSE ToJsonEntries(h, Tail(entries),
                       JObjectSet(obj, Head(entries).key, to_json(h, Head(entries).val)))

\* nlohmann::json::dump(): the compact text, or the type_error it throws
\* for a string that is not UTF-8, as [err, text].
RECURSIVE BigDecimal(_)
BigDecimal(x) ==
    IF x = <<>> THEN <<>>
    ELSE Append(BigDecimal(BigDivSmall(x, 10).q), 48 + BigDivSmall(x, 10).r)
DumpInteger(n) ==
    IF n.mag = <<>> THEN <<48>>
    ELSE (IF n.neg THEN <<45>> ELSE <<>>) \o BigDecimal(n.mag)
\* A finite double is written as the shortest decimal text that reads back
\* as the same double; "0x" and the 16 hex digits of the double stand for
\* that text here.  A NaN or an infinity is written null.
DumpFloat(bits) ==
    IF DoubleExp(bits) = 2047 THEN <<110, 117, 108, 108>>
    ELSE <<48, 120>> \o HexBytes(bits)
\* The length of the well-formed UTF-8 sequence at the head of str, 0 when
\* there is none.
Continuation(str, i, lo, hi) == Len(str) >= i /\ str[i] >= lo /\ str[i] <= hi
Utf8Len(str) ==
    CASE str[1] < 128 -> 1
      [] str[1] >= 194 /\ str[1] <= 223 ->
            IF Continuation(str, 2, 128, 191) THEN 2 ELSE 0
      [] str[1] >= 224 /\ str[1] <= 239 ->
            IF /\ Continuation(str, 2, IF str[1] = 224 THEN 160 ELSE 128,
                               IF str[1] = 237 THEN 159 ELSE 191)
               /\ Continuation(str, 3, 128, 191)
            THEN 3 ELSE 0
      [] str[1] >= 240 /\ str[1] <= 244 ->
            IF /\ Continuation(str, 2, IF str[1] = 240 THEN 144 ELSE 128,
                               IF str[1] = 244 THEN 143 ELSE 191)
               /\ Continuation(str, 3, 128, 191)
               /\ Continuation(str, 4, 128, 191)
            THEN 4 ELSE 0
      [] OTHER -> 0
\* One byte of a string as dump() writes it: the escape of an ASCII
\* character, or the byte of a multi-byte code point as it is.
DumpEscape(c) ==
    CASE c = 34 -> <<92, 34>>
      [] c = 92 -> <<92, 92>>
      [] c = 8 -> <<92, 98>>
      [] c = 12 -> <<92, 102>>
      [] c = 10 -> <<92, 110>>
      [] c = 13 -> <<92, 114>>
      [] c = 9 -> <<92, 116>>
      [] c < 32 -> <<92, 117, 48, 48>> \o HexByte(c)
      [] OTHER -> <<c>>
\* dump() decodes the string code point by code point and throws
\* type_error 316 at a byte that starts or continues no well-formed UTF-8
\* sequence.  Byte i is well placed when it leads a well-formed sequence,
\* or continues one led at most three bytes before it.
LeadsAt(str, i) ==
    /\ (str[i] < 128 \/ str[i] >= 192)
    /\ Utf8Len(SubSeq(str, i, Len(str))) > 0
ContinuesAt(str, i) ==
    /\ str[i] >= 128 /\ str[i] < 192
    /\ \E k \in 1..3 :
          /\ i - k >= 1
          /\ LeadsAt(str, i - k)
          /\ Utf8Len(SubSeq(str, i - k, Len(str))) > k
ValidUtf8(str) == \A i \in 1..Len(str) : LeadsAt(str, i) \/ ContinuesAt(str, i)
\* The bytes of a string as written from byte lo on, eight bytes a step.
DumpAt(str, i) == IF i > Len(str) THEN <<>> ELSE DumpEscape(str[i])
RECURSIVE DumpChars(_, _)
DumpChars(str, lo) ==
    IF lo > Len(str) THEN <<>>
    ELSE DumpAt(str, lo) \o DumpAt(str, lo + 1) \o DumpAt(str, lo + 2)
         \o DumpAt(str, lo + 3) \o DumpAt(str, lo + 4) \o DumpAt(str, lo + 5)
         \o DumpAt(str, lo + 6) \o DumpAt(str, lo + 7) \o DumpChars(str, lo + 8)
DumpString(str) ==
    IF ~ValidUtf8(str) THEN [err |-> TRUE, text |-> <<>>]
    ELSE [err |-> FALSE, text |-> <<34>> \o DumpChars(str, 1) \o <<34>>]
RECURSIVE JsonDump(_)
RECURSIVE DumpItems(_, _)
RECURSIVE DumpEntries(_, _)
\* An element (resp. an entry), d being its text, then the rest.
DumpItem(d, rest, out) ==
    IF d.err THEN d
    ELSE DumpItems(rest, out \o d.text \o (IF rest = <<>> THEN <<>> ELSE <<44>>))
DumpItems(items, out) ==
    IF items = <<>> THEN [err |-> FALSE, text |-> Append(out, 93)]
    ELSE DumpItem(JsonDump(Head(items)), Tail(items), out)
DumpEntry(k, d, rest, out) ==
    IF k.err THEN k
    ELSE IF d.err THEN d
    ELSE DumpEntries(rest, out \o k.text \o <<58>> \o d.text
                              \o (IF rest = <<>> THEN <<>> ELSE <<44>>))
DumpEntries(entries, out) ==
    IF entries = <<>> THEN [err |-> FALSE, text |-> Append(out, 125)]
    ELSE DumpEntry(DumpString(Head(entries).key), JsonDump(Head(entries).val),
                   Tail(entries), out)
JsonDump(j) ==
    CASE j.j = "null" -> [err |-> FALSE, text |-> <<110, 117, 108, 108>>]
      [] j.j = "boolean" ->
            [err |-> FALSE,
             text |-> IF j.v THEN <<116, 114, 117, 101>> ELSE <<102, 97, 108, 115, 101>>]
      [] j.j = "integer" -> [err |-> FALSE, text |-> DumpInteger(j.v)]
      [] j.j = "float" -> [err |-> FALSE, text |-> DumpFloat(j.v)]
      [] j.j = "string" -> DumpString(j.v)
      [] j.j = "array" -> DumpItems(j.v, <<91>>)
      [] j.j = "object" -> DumpEntries(j.v, <<123>>)

\* format_json
format_json(h, val) == JsonDump(to_json(h, val))

\* detail::from_base64.  T[c] indexes the 256-entry table with a char: a
\* byte of 128 or more is a negative index, a read outside the table, and
\* wild is the int it yields.
B64Value(c, wild) ==
    IF c >= 128 THEN wild
    ELSE IF c >= 65 /\ c <= 90 THEN c - 65
    ELSE IF c >= 97 /\ c <= 122 THEN c - 71
    ELSE IF c >= 48 /\ c <= 57 THEN c + 4
    ELSE IF c = 43 THEN 62 ELSE IF c = 47 THEN 63 ELSE 0 - 1
\* T[c]: char is signed in the build, so a byte of 128 or more indexes
\* the table at c - 256 (as a size_t, far beyond its 256 entries).
B64Index(c) == IF c >= 128 THEN c - 256 ELSE c
\* The loop leaves at the first '=': the characters it visits.
B64Prefix(str) ==
    IF \E i \in 1..Len(str) : str[i] = 61
    THEN SubSeq(str, 1, (CHOOSE i \in 1..Len(str) :
                            str[i] = 61 /\ \A k \in 1..(i - 1) : str[k] # 61) - 1)
    ELSE str
\* The table values of the visited characters that are not skipped.
B64Groups(str, wild) ==
    SelectSeq([i \in 1..Len(B64Prefix(str)) |-> B64Value(B64Prefix(str)[i], wild)],
              LAMBDA v : v # 0 - 1)
\* val = (val << 6) + T[c] after k groups: val is a 32-bit int that wraps,
\* and its low 24 bits, all that is read from it, are those of the last
\* four groups.
B64Acc(vals, k) ==
    ((IF k >= 4 THEN vals[k - 3] * 262144 ELSE 0) + (IF k >= 3 THEN vals[k - 2] * 4096 ELSE 0)
        + (IF k >= 2 THEN vals[k - 1] * 64 ELSE 0) + vals[k]) % 16777216
\* valb goes up by 6 with each group and down by 8 with each byte pushed:
\* byte j is pushed at group ceil(8j / 6), as (val >> valb) & 0xFF.
B64Byte(vals, j) ==
    (B64Acc(vals, (8 * j + 5) \div 6) \div Pow2(6 * ((8 * j + 5) \div 6) - 8 * j)) % 256
B64Decode(vals) == [j \in 1..((6 * Len(vals)) \div 8) |-> B64Byte(vals, j)]
from_base64(str, wild) == B64Decode(B64Groups(str, wild))

\* std::regex_match against uuid_re and date_re.
IsHex(c) == (c >= 48 /\ c <= 57) \/ (c >= 97 /\ c <= 102)
IsDigit(c) == c >= 48 /\ c <= 57
\* (MatchesUUIDAnyCase is the faulty variant whose pattern is matched
\* without regard to case.)
MatchesUUIDAnyCase(str) ==
    /\ Len(str) = 36
    /\ \A i \in 1..36 :
          IF i \in {9, 14, 19, 24} THEN str[i] = 45
          ELSE IsHex(str[i]) \/ (str[i] >= 65 /\ str[i] <= 70)
MatchesUUID(str) ==
    /\ Len(str) = 36
    /\ \A i \in 1..36 : IF i \in {9, 14, 19, 24} THEN str[i] = 45 ELSE IsHex(str[i])
\* (MatchesDateUnanchored is the faulty variant that looks for the pattern
\* anywhere in the string, as std::regex_search without ^ and $ would.)
MatchesDateUnanchored(str) ==
    \E k \in 0..(Len(str) - 20) :
        \A i \in 1..20 :
            CASE i \in {5, 8} -> str[k + i] = 45
              [] i = 11 -> str[k + i] = 84
              [] i \in {14, 17} -> str[k + i] = 58
              [] i = 20 -> str[k + i] = 90
              [] OTHER -> IsDigit(str[k + i])
MatchesDate(str) ==
    /\ Len(str) = 20
    /\ \A i \in 1..20 :
          CASE i \in {5, 8} -> str[i] = 45
            [] i = 11 -> str[i] = 84
            [] i \in {14, 17} -> str[i] = 58
            [] i = 20 -> str[i] = 90
            [] OTHER -> IsDigit(str[i])
\* std::stoi(two hex digits, nullptr, 16)
HexValue(c) == IF c <= 57 THEN c - 48 ELSE c - 87
UUIDOfString(str) ==
    [i \in 1..16 |->
        LET hex == SelectSeq(str, LAMBDA c : c # 45)
        IN  HexValue(hex[2 * i - 1]) * 16 + HexValue(hex[2 * i])]

\* std::get_time(&tm, "%Y-%m-%dT%H:%M:%SZ") on a string that matches
\* date_re, tm zeroed before: each field is stored when its digits are
\* within the field's range, and the first field out of range ends the
\* extraction, leaving the fields after it zero.
Num2(str, i) == (str[i] - 48) * 10 + (str[i + 1] - 48)
Num4(str) == Num2(str, 1) * 100 + Num2(str, 3)
GetSecond(str, tm) ==
    IF Num2(str, 18) > 60 THEN tm ELSE [tm EXCEPT !.sec = Num2(str, 18)]
GetMinute(str, tm) ==
    IF Num2(str, 15) > 59 THEN tm ELSE GetSecond(str, [tm EXCEPT !.min = Num2(str, 15)])
GetHour(str, tm) ==
    IF Num2(str, 12) > 23 THEN tm ELSE GetMinute(str, [tm EXCEPT !.hour = Num2(str, 12)])
GetDay(str, tm) ==
    IF Num2(str, 9) < 1 \/ Num2(str, 9) > 31 THEN tm
    ELSE GetHour(str, [tm EXCEPT !.mday = Num2(str, 9)])
GetMonth(str, tm) ==
    IF Num2(str, 6) < 1 \/ Num2(str, 6) > 12 THEN tm
    ELSE GetDay(str, [tm EXCEPT !.mon = Num2(str, 6) - 1])
GetTime(str) ==
    GetMonth(str, [year |-> Num4(str) - 1900, mon |-> 0, mday |-> 0,
                   hour |-> 0, min |-> 0, sec |-> 0])
\* timegm: the day of tm (counted from 1970-01-01) and the second of it.
DaysOfEra(y, m, d) ==
    ((y \div 400) * 146097)
        + (((y % 400) * 365) + ((y % 400) \div 4) - ((y % 400) \div 100)
           + (((153 * (IF m > 2 THEN m - 3 ELSE m + 9)) + 2) \div 5) + d - 1)
        - 719468
DaysFromCivil(y, m, d) == DaysOfEra(IF m <= 2 THEN y - 1 ELSE y, m, d)
TmDay(tm) == DaysFromCivil(tm.year + 1900, tm.mon + 1, 1) + tm.mday - 1
TmSecond(tm) == tm.hour * 3600 + tm.min * 60 + tm.sec
\* system_clock::from_time_t(timegm(&tm)): seconds times 10^9 in int64.
\* The product overflowing is undefined: wild is what it yields.
TicksOfSeconds(neg, mag, wild) ==
    IF BigBitLen(BigShl(BigMulSmall(mag, FiveToNine, 0), TwoToNineExp)) > 63 THEN wild
    ELSE I64Make(neg, BigShl(BigMulSmall(mag, FiveToNine, 0), TwoToNineExp))
FromTimeT(day, sec, wild) ==
    IF day >= 0 THEN TicksOfSeconds(FALSE, BigNorm(BigMulSmall(BigOfNat(day), SecondsInDay, sec)), wild)
    ELSE TicksOfSeconds(TRUE, BigNorm(BigMulSmall(BigOfNat(0 - day - 1), SecondsInDay,
                                                  SecondsInDay - sec)), wild)
DateOfString(str, wild) == FromTimeT(TmDay(GetTime(str)), TmSecond(GetTime(str)), wild)

\* j.get<std::int32_t>(): the low 32 bits of the number.
Int32OfJson(n) == Int32OfBytes(Drop(I64Make(n.neg, n.mag), 4))

\* detail::from_json.  ub.t is what a read outside from_base64's table
\* yields and ub.i64 what an overflowing from_time_t yields.
\* (StringFromJsonData is the faulty variant that tests the prefix "data:"
\* only.)
StringFromJsonData(str, ub) ==
    IF Len(str) >= 12 /\ Take(str, 5) = Take(DataBase64, 5)
    THEN VBinary(from_base64(Drop(str, 12), ub.t))
    ELSE IF MatchesUUID(str) THEN VUUID(UUIDOfString(str))
    ELSE IF MatchesDate(str) THEN VDate(DateOfString(str, ub.i64))
    ELSE VString(str)
StringFromJson(str, ub) ==
    IF Len(str) >= 12 /\ Take(str, 12) = DataBase64
    THEN VBinary(from_base64(Drop(str, 12), ub.t))
    ELSE IF MatchesUUID(str) THEN VUUID(UUIDOfString(str))
    ELSE IF MatchesDate(str) THEN VDate(DateOfString(str, ub.i64))
    ELSE VString(str)
RECURSIVE from_json(_, _, _)
RECURSIVE FromJsonItems(_, _, _, _)
RECURSIVE FromJsonEntries(_, _, _, _)
FromJsonItem(r, rest, array, ub) ==
    FromJsonItems(rest, ArrayPush(r.heap, array, r.val), array, ub)
\* (FromJsonItemsMoved is the faulty variant that returns a Value made from
\* a unique_ptr already moved from.)
FromJsonItemsMoved(items, h, array, ub) ==
    IF items = <<>> THEN [heap |-> h, val |-> VArray(Null)]
    ELSE FromJsonItem(from_json(Head(items), h, ub), Tail(items), array, ub)
FromJsonItems(items, h, array, ub) ==
    IF items = <<>> THEN [heap |-> h, val |-> VArray(array)]
    ELSE FromJsonItem(from_json(Head(items), h, ub), Tail(items), array, ub)
FromJsonEntry(r, key, rest, map, ub) ==
    FromJsonEntries(rest, MapAssign(r.heap, map, key, r.val), map, ub)
FromJsonEntries(entries, h, map, ub) ==
    IF entries = <<>> THEN [heap |-> h, val |-> VMap(map)]
    ELSE FromJsonEntry(from_json(Head(entries).val, h, ub), Head(entries).key,
                       Tail(entries), map, ub)
from_json(j, h, ub) ==
    CASE j.j = "null" -> [heap |-> h, val |-> Undef]
      [] j.j = "boolean" -> [heap |-> h, val |-> VBool(j.v)]
      [] j.j = "integer" -> [heap |-> h, val |-> VInt(Int32OfJson(j.v))]
      [] j.j = "float" -> [heap |-> h, val |-> VReal(j.v)]
      [] j.j = "string" -> [heap |-> h, val |-> StringFromJson(j.v, ub)]
      [] j.j = "array" ->
            FromJsonItems(j.v, Store(h, NewAddr(h), [k |-> "Array", items |-> <<>>]),
                          NewAddr(h), ub)
      [] j.j = "object" ->
            FromJsonEntries(j.v, Store(h, NewAddr(h), [k |-> "Map", items |-> <<>>]),
                            NewAddr(h), ub)

\* nlohmann::json::parse of a number.  The literal is [neg, int, frac, e]:
\* a minus sign or none, the digits before the point, the digits after it
\* (none when there is no point) and the exponent (-1 when there is none).
\* A literal without point and exponent is read with strtoull, or with
\* strtoll when it has a minus sign, and is an integer when that succeeds,
\* i.e. up to 2^64 - 1 and down to -2^63; every other literal is read with
\* strtod and is a float.
RECURSIVE BigOfDigits(_)
BigOfDigits(ds) ==
    IF ds = <<>> THEN <<>>
    ELSE BigNorm(BigMulSmall(BigOfDigits(Take(ds, Len(ds) - 1)), 10, ds[Len(ds)] - 48))
Pow10(k) == 10 ^ k
\* The double nearest to the natural x > 0.
DoubleOfBig(neg, x) ==
    IF BigBitLen(x) < 53 THEN DoubleBits(neg, BigShl(x, 53 - BigBitLen(x)), BigBitLen(x) - 53)
    ELSE DoubleQuotient(neg, To53(x, FALSE), 0)
\* strtod: the double nearest to n * 10^e10.
ScanFloat(neg, n, e10) ==
    IF n = <<>> THEN <<IF neg THEN 128 ELSE 0, 0, 0, 0, 0, 0, 0, 0>>
    ELSE IF e10 >= 0 THEN DoubleOfBig(neg, BigNorm(BigMulSmall(n, Pow10(e10), 0)))
    ELSE DoubleDivide(neg, BigDivSmall(BigShl(n, 85), Pow10(0 - e10)), 0 - 85)
\* strtoull / strtoll, and strtod when they report ERANGE.
ScanInteger(neg, mag) ==
    IF ~neg /\ BigBitLen(mag) <= 64 THEN JInt(FALSE, mag)
    ELSE IF neg /\ (BigBitLen(mag) <= 63 \/ mag = <<0, 0, 0, 0, 0, 0, 0, 128>>)
    THEN JInt(mag # <<>>, mag)
    ELSE JFloat(ScanFloat(neg, mag, 0))
ScanNumber(lit) ==
    IF lit.frac = <<>> /\ lit.e < 0 THEN ScanInteger(lit.neg, BigOfDigits(lit.int))
    ELSE JFloat(ScanFloat(lit.neg, BigOfDigits(lit.int \o lit.frac),
                          (IF lit.e < 0 THEN 0 ELSE lit.e) - Len(lit.frac)))
\* The text of the literal.
NumberText(lit) ==
    (IF lit.neg THEN <<45>> ELSE <<>>) \o lit.int
        \o (IF lit.frac = <<>> THEN <<>> ELSE <<46>> \o lit.frac)
        \o (IF lit.e < 0 THEN <<>> ELSE <<101, 48 + lit.e>>)

\* parse_json: nlohmann::json::parse(s) throws a parse_error or yields a
\* tree, parsed being that outcome as [err, j]; then from_json of the tree.
parse_json(parsed, h, ub) ==
    IF parsed.err THEN [err |-> TRUE, val |-> Undef, heap |-> h]
    ELSE [err |-> FALSE, val |-> from_json(parsed.j, h, ub).val,
          heap |-> from_json(parsed.j, h, ub).heap]

\* ------------------------------------------------------------------------
\* Construction of a Value by the caller, as the tests do it:
\* make_unique<Array>() and push_back of each element, make_unique<Map>()
\* and (*map)[key] = element for each entry in the order given, then
\* Value(std::move(container)).  The Value to build is given as a tree (the
\* form Contents yields); a container tree marked null is the moved-from
\* Value of that kind.
TArray(items) == [t |-> "Array", v |-> [null |-> FALSE, items |-> items]]
TMap(entries) == [t |-> "Map", v |-> [null |-> FALSE, items |-> entries]]
TNull(kind) == [t |-> kind, v |-> [null |-> TRUE, items |-> <<>>]]
Entry(key, val) == [key |-> key, val |-> val]

RECURSIVE BuildValue(_, _)
RECURSIVE BuildArrayItems(_, _, _)
RECURSIVE BuildMapItems(_, _, _)
BuildValue(h, tree) ==
    IF ~IsContainer(tree) THEN [heap |-> h, val |-> tree]
    ELSE IF tree.v.null THEN [heap |-> h, val |-> [t |-> tree.t, v |-> Null]]
    ELSE LET a == NewAddr(h)
             h1 == Store(h, a, [k |-> tree.t, items |-> <<>>])
         IN  [heap |-> IF tree.t = "Array" THEN BuildArrayItems(h1, a, tree.v.items)
                       ELSE BuildMapItems(h1, a, tree.v.items),
              val |-> [t |-> tree.t, v |-> a]]
BuildArrayItems(h, a, items) ==
    IF items = <<>> THEN h
    ELSE LET b == BuildValue(h, Head(items))
         IN  BuildArrayItems(ArrayPush(b.heap, a, b.val), a, Tail(items))
BuildMapItems(h, a, entries) ==
    IF entries = <<>> THEN h
    ELSE LET b == BuildValue(h, Head(entries).val)
         IN  BuildMapItems(MapAssign(b.heap, a, Head(entries).key, b.val), a, Tail(entries))

\* ------------------------------------------------------------------------
\* The program state: the heap, the Value objects the caller holds, the
\* stream, the calls of parse_binary made so far and the last operation.
VARIABLES heap, slots, stream, calls, last
vars == <<heap, slots, stream, calls, last>>

\* A Value object that is not constructed, or was destroyed.
Dead == [t |-> "dead", v |-> 0]

\* ------------------------------------------------------------------------
\* The caller's use of Value: construction, copy, move, mutation through
\* the container pointer and destruction, as in test_cow_and_sharing and
\* test_json_output.
MaxCells == 4
MaxItems == 2
MaxOps == 5

Slots == {"v1", "v2", "v3"}
OwnKeys == {<<107>>, <<110>>}
OwnScalar == VInt(99)
OwnTrees ==
    { VInt(1),
      TMap(<<Entry(<<107>>, VInt(1))>>),
      TMap(<<Entry(<<107>>, TArray(<<VInt(1)>>))>>),
      TArray(<<>>),
      TArray(<<TMap(<<Entry(<<107>>, VInt(1))>>)>>) }

LiveCells(h) == {a \in DOMAIN h : h[a].k # "free"}
WithinBounds(h) ==
    /\ Cardinality(LiveCells(h)) <= MaxCells
    /\ \A a \in LiveCells(h) : Len(h[a].items) <= MaxItems

IsLive(s) == slots[s] # Dead
HoldsMap(s) == slots[s].t = "Map" /\ slots[s].v # Null
HoldsArray(s) == slots[s].t = "Array" /\ slots[s].v # Null

OwnInit ==
    /\ heap = EmptyHeap
    /\ slots = [s \in Slots |-> Dead]
    /\ stream = MakeStream(<<>>)
    /\ calls = <<>>
    /\ last = [op |-> "init", dst |-> "", src |-> "", n |-> 0]

Did(op, d, s) ==
    /\ last.n < MaxOps
    /\ last' = [op |-> op, dst |-> d, src |-> s, n |-> last.n + 1]

\* The original Value is constructed.
Build(d, tree) ==
    /\ ~IsLive(d)
    /\ LET b == BuildValue(heap, tree)
       IN  /\ heap' = b.heap
           /\ slots' = [slots EXCEPT ![d] = b.val]
    /\ WithinBounds(heap')
    /\ Did("construct", d, "")
    /\ UNCHANGED <<stream, calls>>

\* Value d(s): the copy constructor.
CopyConstruct(d, s) ==
    /\ ~IsLive(d) /\ IsLive(s)
    /\ LET c == CopyValue(heap, slots[s])
       IN  /\ heap' = c.heap
           /\ slots' = [slots EXCEPT ![d] = c.val]
    /\ WithinBounds(heap')
    /\ Did("copy", d, s)
    /\ UNCHANGED <<stream, calls>>

\* Value::operator=(const Value& other): nothing for this == &other, else
\* a temporary copy whose data is moved in; the move destroys what the
\* destination held.
CopyAssignValue(h, dstVal, srcVal, same) ==
    IF same THEN [heap |-> h, val |-> dstVal]
    ELSE LET temp == CopyValue(h, srcVal)
         IN  [heap |-> Release(temp.heap, dstVal), val |-> temp.val]
CopyAssign(d, s) ==
    /\ IsLive(d) /\ IsLive(s)
    /\ LET c == CopyAssignValue(heap, slots[d], slots[s], d = s)
       IN  /\ heap' = c.heap
           /\ slots' = [slots EXCEPT ![d] = c.val]
    /\ WithinBounds(heap')
    /\ Did("copy", d, s)
    /\ UNCHANGED <<stream, calls>>

\* Value d(std::move(s)) and d = std::move(s), both defaulted.
MoveConstruct(d, s) ==
    /\ ~IsLive(d) /\ IsLive(s)
    /\ slots' = [slots EXCEPT ![d] = slots[s], ![s] = MovedFrom(slots[s])]
    /\ Did("move", d, s)
    /\ UNCHANGED <<heap, stream, calls>>
MoveAssign(d, s) ==
    /\ IsLive(d) /\ IsLive(s) /\ d # s
    /\ heap' = Release(heap, slots[d])
    /\ slots' = [slots EXCEPT ![d] = slots[s], ![s] = MovedFrom(slots[s])]
    /\ Did("move", d, s)
    /\ UNCHANGED <<stream, calls>>

\* (*map)[key] = Value(scalar)
MapSet(d, key, val) ==
    /\ HoldsMap(d)
    /\ heap' = MapAssign(heap, slots[d].v, key, val)
    /\ WithinBounds(heap')
    /\ Did("mutate", d, "")
    /\ UNCHANGED <<slots, stream, calls>>

\* (*map)[key] = s: operator[] inserts the entry, then the copy assignment
\* clones s into it.
MapSetCopy(d, key, s) ==
    /\ HoldsMap(d) /\ IsLive(s)
    /\ LET a == slots[d].v
           items == MapSubscript(heap[a].items, key)
           i == MapFind(items, key)
           h1 == Store(heap, a, [k |-> "Map", items |-> items])
           c == CopyAssignValue(h1, items[i].val, slots[s], FALSE)
       IN  heap' = Store(c.heap, a, [k |-> "Map", items |-> [items EXCEPT ![i].val = c.val]])
    /\ WithinBounds(heap')
    /\ Did("mutate", d, s)
    /\ UNCHANGED <<slots, stream, calls>>

\* array->push_back(Value(scalar)) and array->push_back(std::move(s)).
PushScalar(d, val) ==
    /\ HoldsArray(d)
    /\ heap' = ArrayPush(heap, slots[d].v, val)
    /\ WithinBounds(heap')
    /\ Did("mutate", d, "")
    /\ UNCHANGED <<slots, stream, calls>>
PushMove(d, s) ==
    /\ HoldsArray(d) /\ IsLive(s) /\ d # s
    /\ heap' = ArrayPush(heap, slots[d].v, slots[s])
    /\ slots' = [slots EXCEPT ![s] = MovedFrom(slots[s])]
    /\ WithinBounds(heap')
    /\ Did("mutate", d, s)
    /\ UNCHANGED <<stream, calls>>

\* The Value goes out of scope.
Destroy(d) ==
    /\ IsLive(d)
    /\ heap' = Release(heap, slots[d])
    /\ slots' = [slots EXCEPT ![d] = Dead]
    /\ Did("destroy", d, "")
    /\ UNCHANGED <<stream, calls>>

OwnNext ==
    \/ \E tree \in OwnTrees : Build("v1", tree)
    \/ \E d, s \in Slots : CopyConstruct(d, s)
    \/ \E d, s \in Slots : CopyAssign(d, s)
    \/ \E d, s \in Slots : MoveConstruct(d, s)
    \/ \E d, s \in Slots : MoveAssign(d, s)
    \/ \E d \in Slots, key \in OwnKeys : MapSet(d, key, OwnScalar)
    \/ \E d, s \in Slots, key \in OwnKeys : MapSetCopy(d, key, s)
    \/ \E d \in Slots : PushScalar(d, OwnScalar)
    \/ \E d, s \in Slots : PushMove(d, s)
    \/ \E d \in Slots : Destroy(d)

SpecOwn == OwnInit /\ [][OwnNext]_vars

\* ------------------------------------------------------------------------
\* The binary codec at work: the caller builds Values, writes them one
\* after another to a stream with format_binary, and reads the stream back
\* with parse_binary.  Before the first read the bytes of a single written
\* value may have been cut short or altered in one place, as a damaged
\* file or a hostile peer would.  last = [op, n, at, byte]: the step just
\* taken, the number of values written, the place and byte of the damage.

MaxValues == 2
MaxCalls == 2
MaxJsonCalls == 1

SlotSeq == <<"v1", "v2", "v3">>

Uuid == <<18, 52, 86, 120, 154, 188, 222, 240, 1, 35, 69, 103, 137, 171, 205, 239>>
\* Instants: 2 s and 2025-11-15T12:30:00Z, whole seconds, and 15 ns after
\* the epoch.
TwoSeconds == I64Make(FALSE, <<0, 148, 53, 119>>)
TestDate == I64Make(FALSE, <<0, 208, 124, 161, 248, 45, 120, 24>>)
FifteenNanos == I64Make(FALSE, <<15>>)

BinScalars ==
    { Undef, VBool(TRUE), VBool(FALSE), VInt(258), VInt(-2),
      VReal(<<63, 248, 0, 0, 0, 0, 0, 0>>),
      VString(<<>>), VString(<<104, 0, 105>>), VUUID(Uuid),
      VDate(TwoSeconds), VDate(TestDate), VDate(FifteenNanos),
      VURI(<<104, 58, 47>>), VBinary(<<0, 255>>), VBinary(<<>>) }
BinContainers ==
    { TArray(<<>>), TMap(<<>>),
      TArray(<<VInt(1), VString(<<97>>)>>),
      TArray(<<TArray(<<VBool(TRUE)>>), Undef>>),
      TMap(<<Entry(<<107>>, VInt(1)), Entry(<<110>>, VDate(TwoSeconds))>>),
      TMap(<<Entry(<<>>, TArray(<<TMap(<<Entry(<<107>>, VBinary(<<7>>))>>)>>))>>),
      TNull("Array"), TNull("Map") }
BinTrees == BinScalars \cup BinContainers
\* What follows a first value in the stream.
BinNext == { VBool(TRUE), VInt(258), TArray(<<VInt(1), VString(<<97>>)>>) }

\* The byte an indeterminate type_char may hold, and what an undefined
\* cast to int64 may yield.
Indeterminate ==
    { [tc |-> c, i64 |-> w] : c \in {0, TagUndef, TagTrue, TagInt, TagArrayOpen, TagMapOpen},
                              w \in {I64Zero, I64Min} }
\* What nlohmann::json::parse yields for the texts the caller parses: a
\* parse_error for text that is no JSON, else the tree of the text, here
\* the texts format_json gives for these Values and a few written by hand.
JsonSources ==
    << TArray(<<>>), TMap(<<>>),
       TArray(<<TArray(<<VBool(TRUE)>>), Undef>>),
       TMap(<<Entry(<<107>>, VInt(1)), Entry(<<110>>, VDate(TwoSeconds))>>),
       TMap(<<Entry(<<>>, TArray(<<TMap(<<Entry(<<107>>, VBinary(<<7>>))>>)>>))>>),
       TNull("Array"), TNull("Map"),
       Undef, VBool(TRUE), VInt(258), VReal(<<63, 248, 0, 0, 0, 0, 0, 0>>),
       VString(<<104, 0, 105>>), VUUID(Uuid), VDate(TestDate), VBinary(<<0, 255>>) >>
JsonOfTree(tree) == to_json(BuildValue(EmptyHeap, tree).heap, BuildValue(EmptyHeap, tree).val)
JsonByHand ==
    << JInt(FALSE, <<0, 0, 0, 128>>),
       JObject(<<[key |-> <<107>>, val |-> JArray(<<JNull>>)],
                 [key |-> <<110>>, val |-> JObject(<<>>)]>>) >>
JsonTexts == 0..(Len(JsonSources) + Len(JsonByHand))
JsonParsed(i) ==
    IF i = 0 THEN [err |-> TRUE, j |-> JNull]
    ELSE IF i <= Len(JsonSources) THEN [err |-> FALSE, j |-> JsonOfTree(JsonSources[i])]
    ELSE [err |-> FALSE, j |-> JsonByHand[i - Len(JsonSources)]]
\* What a read outside the base64 table and an overflowing from_time_t
\* may yield.
JsonIndeterminate == {[t |-> 0 - 1, i64 |-> I64Zero], [t |-> 63, i64 |-> I64Min]}
\* Bytes a damaged stream may hold in place of the written one; 110 and
\* 120 are the keys "n" and "x".
DamageBytes == {0, TagUndef, 110, 120, 128, 255}

BinInit ==
    /\ heap = EmptyHeap
    /\ slots = [s \in Slots |-> Dead]
    /\ stream = MakeStream(<<>>)
    /\ calls = <<>>
    /\ last = [op |-> "init", n |-> 0, at |-> 0, byte |-> 0]

\* Value v(...); format_binary(v) appended to the stream.
Write(tree) ==
    /\ calls = <<>>
    /\ last.op \in {"init", "write"}
    /\ last.n < MaxValues /\ last.n < Len(SlotSeq)
    /\ last.n > 0 => tree \in BinNext
    /\ LET b == BuildValue(heap, tree)
       IN  /\ heap' = b.heap
           /\ slots' = [slots EXCEPT ![SlotSeq[last.n + 1]] = b.val]
           /\ stream' = [stream EXCEPT !.data = @ \o format_binary(b.heap, b.val)]
    /\ last' = [op |-> "write", n |-> last.n + 1, at |-> 0, byte |-> 0]
    /\ UNCHANGED calls

\* The stream ends after its first n bytes.
Truncate(n) ==
    /\ calls = <<>>
    /\ last.op = "write" /\ last.n = 1
    /\ n < Len(stream.data)
    /\ stream' = [stream EXCEPT !.data = Take(@, n)]
    /\ last' = [last EXCEPT !.op = "truncate", !.at = n]
    /\ UNCHANGED <<heap, slots, calls>>

\* Byte p of the stream (counted from 0) is b instead of what was written.
Damage(p, b) ==
    /\ calls = <<>>
    /\ last.op = "write" /\ last.n = 1
    /\ p < Len(stream.data)
    /\ stream.data[p + 1] # b
    /\ stream' = [stream EXCEPT !.data[p + 1] = b]
    /\ last' = [last EXCEPT !.op = "damage", !.at = p, !.byte = b]
    /\ UNCHANGED <<heap, slots, calls>>

\* try { Value r = parse_binary(stream); } catch (...) {}
\* The stream is read back before any JSON text is parsed.
Parse(ub) ==
    /\ Len(calls) < MaxCalls
    /\ \A k \in 1..Len(calls) : calls[k].fn = "parse_binary"
    /\ LET r == parse_binary(stream, heap, ub)
       IN  /\ heap' = r.heap
           /\ stream' = r.s
           /\ calls' = Append(calls, [fn |-> "parse_binary", err |-> r.err,
                                      val |-> IF r.err THEN Dead ELSE r.val,
                                      from |-> stream.pos, to |-> r.s.pos])
    /\ UNCHANGED <<slots, last>>

\* try { Value r = parse_json(text); } catch (...) {}
\* The text is the caller's own string, unrelated to the stream.
ParseJson(parsed, ub) ==
    /\ Len(calls) < MaxCalls
    /\ Cardinality({k \in 1..Len(calls) : calls[k].fn = "parse_json"}) < MaxJsonCalls
    /\ last.op \in {"init", "write"}
    /\ LET r == parse_json(parsed, heap, ub)
       IN  /\ heap' = r.heap
           /\ calls' = Append(calls, [fn |-> "parse_json", err |-> r.err,
                                      val |-> IF r.err THEN Dead ELSE r.val,
                                      from |-> stream.pos, to |-> stream.pos])
    /\ UNCHANGED <<slots, stream, last>>

BinNextStep ==
    \/ \E tree \in BinTrees : Write(tree)
    \/ \E n \in 0..40 : Truncate(n)
    \/ \E p \in 0..40, b \in DamageBytes : Damage(p, b)
    \/ \E ub \in Indeterminate : Parse(ub)
    \/ \E i \in JsonTexts, ub \in JsonIndeterminate : ParseJson(JsonParsed(i), ub)

SpecBin == BinInit /\ [][BinNextStep]_vars

\* ------------------------------------------------------------------------
\* The JSON codec at work, as in test_binary_to_json_round_trip and
\* test_json_to_binary_round_trip: the caller either builds a Value and
\* formats it with format_json, or holds a JSON text of its own; the text
\* is parsed with parse_json, the Value written with format_binary, read
\* back with parse_binary and formatted with format_json again.
\* last = [op, j, out, again]: the step just taken, the tree of the text,
\* the outcome of the first format_json (or the text given) and of the
\* second.

\* The Values the caller formats.
JsonValues ==
    << Undef,
       VBool(TRUE),
       VBool(FALSE),
       VInt(258),
       VInt(0 - 2147483647 - 1),
       VInt(0 - 2),
       VReal(<<63, 248, 0, 0, 0, 0, 0, 0>>),
       VReal(<<127, 248, 0, 0, 0, 0, 0, 0>>),
       VString(<<>>),
       VString(<<104, 101, 108, 108, 111>>),
       VString(<<97, 34, 92, 10, 0>>),
       VString(<<195, 169>>),
       VString(<<255>>),
       VURI(<<104, 116, 116, 112, 58, 47, 47, 101, 120, 97, 109, 112, 108, 101, 46, 99, 111, 109>>),
       VURI(<<>>),
       VURI(<<100, 97, 116, 97, 58, 98, 97, 115, 101, 54, 52, 44, 65, 81, 73, 68>>),
       VURI(<<49, 50, 51, 52, 53, 54, 55, 56, 45, 57, 97, 98, 99, 45, 100, 101, 102, 48, 45, 48, 49, 50, 51, 45, 52, 53, 54, 55, 56, 57, 97, 98, 99, 100, 101, 102>>),
       VURI(<<50, 48, 50, 53, 45, 49, 49, 45, 49, 53, 84, 49, 50, 58, 51, 48, 58, 48, 48, 90>>),
       VUUID(Uuid),
       VUUID(<<0, 1, 2, 3, 4, 5, 6, 7, 8, 9, 10, 11, 12, 13, 14, 15>>),
       VUUID(<<255, 255, 255, 255, 255, 255, 255, 255, 255, 255, 255, 255, 255, 255, 255, 255>>),
       VDate(TestDate),
       VDate(TwoSeconds),
       VDate(I64Zero),
       VBinary(<<>>),
       VBinary(<<255>>),
       VBinary(<<0, 255>>),
       VBinary(<<1, 2, 3>>),
       VBinary(<<1, 2, 3, 4>>),
       VBinary(<<251, 239, 190, 0, 16>>),
       VBinary(<<255, 254, 253, 252, 251, 250>>),
       VBinary(<<7, 6, 5, 4, 3, 2, 1>>),
       VBinary(<<128, 64, 32, 16, 8, 4, 2, 1, 0, 255, 127, 63, 31>>),
       TArray(<<>>),
       TMap(<<>>),
       TArray(<<VInt(2), VInt(1), VString(<<97>>)>>),
       TMap(<<Entry(<<122>>, VInt(1)), Entry(<<97>>, VBool(TRUE)), Entry(<<109>>, Undef)>>),
       TMap(<<Entry(<<98>>, TArray(<<TMap(<<Entry(<<107>>, VBinary(<<7>>))>>)>>)), Entry(<<97, 97>>, VURI(<<104, 58>>))>>),
       TNull("Array"),
       TNull("Map"),
       VURI(<<100, 97, 116, 97, 58, 116, 101, 120, 116, 47, 112, 108, 97, 105, 110, 44, 104, 105>>),
       TMap(<<Entry(<<107, 101, 121>>, VInt(1))>>),
       TArray(<<VInt(1), VInt(2)>>) >>

\* The JSON strings the caller's own texts hold:
\*    1 'data:base64,AQIDBA=='  (padded)
\*    2 'data:base64,AQIDBA'  (unpadded)
\*    3 'data:base64,AQ ID\nBA=='  (white space inside)
\*    4 'data:base64,AQ==IDBA'  (text after the padding)
\*    5 'data:base64,'  (nothing to decode)
\*    6 'data:base64,A'  (one character)
\*    7 'data:base64,/+7vvgAQ//79/Pv6'  (16 characters)
\*    8 'data:base64,gEAgEAgEAgEA/38/Hw=='  (13 bytes)
\*    9 'data:base64,AQÃ©ID'  (e-acute inside)
\*   10 'data:base64'  (no comma)
\*   11 'Data:base64,AQID'  (capital D)
\*   12 ' data:base64,AQID'  (leading space)
\*   13 'data:base64,12345678-9abc-def0-0123-456789abcdef'  (prefix before a UUID)
\*   14 '12345678-9abc-def0-0123-456789abcdef'  (UUID)
\*   15 '00000000-0000-0000-0000-000000000000'  (UUID)
\*   16 '12345678-9ABC-DEF0-0123-456789ABCDEF'  (uppercase)
\*   17 '12345678-9abc-def0-0123-456789abcdef '  (trailing space)
\*   18 'x12345678-9abc-def0-0123-456789abcdef'  (leading character)
\*   19 '123456789abcdef00123456789abcdef'  (no hyphens)
\*   20 '12345678-9abc-def0-0123-456789abcdeg'  (g is no hex digit)
\*   21 '2025-11-15T12:30:00Z'  (Date)
\*   22 '1970-01-01T00:00:00Z'  (Date)
\*   23 '1969-12-31T23:59:59Z'  (Date before the epoch)
\*   24 '2000-02-29T23:59:59Z'  (leap day)
\*   25 '2200-01-01T00:00:01Z'  (Date)
\*   26 '1700-01-01T00:00:01Z'  (Date)
\*   27 '2263-01-01T00:00:00Z'  (beyond int64 nanoseconds)
\*   28 '9999-12-31T23:59:59Z'
\*   29 '0001-01-01T00:00:00Z'
\*   30 '2025-02-30T00:00:00Z'  (no such day)
\*   31 '2025-13-01T00:00:00Z'  (no such month)
\*   32 '2025-11-15T24:00:00Z'  (no such hour)
\*   33 '2025-11-15T12:30:60Z'  (leap second)
\*   34 '2025-11-15T12:30:00z'  (lowercase z)
\*   35 '2025-11-15 12:30:00Z'  (no T)
\*   36 '2025-11-15T12:30:00Z\n'  (trailing LF)
\*   37 '2025-11-15T12:30:00'  (no Z)
\*   38 ''
\*   39 'hello'
JsonStrings ==
    << <<100, 97, 116, 97, 58, 98, 97, 115, 101, 54, 52, 44, 65, 81, 73, 68, 66, 65, 61, 61>>,
       <<100, 97, 116, 97, 58, 98, 97, 115, 101, 54, 52, 44, 65, 81, 73, 68, 66, 65>>,
       <<100, 97, 116, 97, 58, 98, 97, 115, 101, 54, 52, 44, 65, 81, 32, 73, 68, 10, 66, 65, 61, 61>>,
       <<100, 97, 116, 97, 58, 98, 97, 115, 101, 54, 52, 44, 65, 81, 61, 61, 73, 68, 66, 65>>,
       <<100, 97, 116, 97, 58, 98, 97, 115, 101, 54, 52, 44>>,
       <<100, 97, 116, 97, 58, 98, 97, 115, 101, 54, 52, 44, 65>>,
       <<100, 97, 116, 97, 58, 98, 97, 115, 101, 54, 52, 44, 47, 43, 55, 118, 118, 103, 65, 81, 47, 47, 55, 57, 47, 80, 118, 54>>,
       <<100, 97, 116, 97, 58, 98, 97, 115, 101, 54, 52, 44, 103, 69, 65, 103, 69, 65, 103, 69, 65, 103, 69, 65, 47, 51, 56, 47, 72, 119, 61, 61>>,
       <<100, 97, 116, 97, 58, 98, 97, 115, 101, 54, 52, 44, 65, 81, 195, 169, 73, 68>>,
       <<100, 97, 116, 97, 58, 98, 97, 115, 101, 54, 52>>,
       <<68, 97, 116, 97, 58, 98, 97, 115, 101, 54, 52, 44, 65, 81, 73, 68>>,
       <<32, 100, 97, 116, 97, 58, 98, 97, 115, 101, 54, 52, 44, 65, 81, 73, 68>>,
       <<100, 97, 116, 97, 58, 98, 97, 115, 101, 54, 52, 44, 49, 50, 51, 52, 53, 54, 55, 56, 45, 57, 97, 98, 99, 45, 100, 101, 102, 48, 45, 48, 49, 50, 51, 45, 52, 53, 54, 55, 56, 57, 97, 98, 99, 100, 101, 102>>,
       <<49, 50, 51, 52, 53, 54, 55, 56, 45, 57, 97, 98, 99, 45, 100, 101, 102, 48, 45, 48, 49, 50, 51, 45, 52, 53, 54, 55, 56, 57, 97, 98, 99, 100, 101, 102>>,
       <<48, 48, 48, 48, 48, 48, 48, 48, 45, 48, 48, 48, 48, 45, 48, 48, 48, 48, 45, 48, 48, 48, 48, 45, 48, 48, 48, 48, 48, 48, 48, 48, 48, 48, 48, 48>>,
       <<49, 50, 51, 52, 53, 54, 55, 56, 45, 57, 65, 66, 67, 45, 68, 69, 70, 48, 45, 48, 49, 50, 51, 45, 52, 53, 54, 55, 56, 57, 65, 66, 67, 68, 69, 70>>,
       <<49, 50, 51, 52, 53, 54, 55, 56, 45, 57, 97, 98, 99, 45, 100, 101, 102, 48, 45, 48, 49, 50, 51, 45, 52, 53, 54, 55, 56, 57, 97, 98, 99, 100, 101, 102, 32>>,
       <<120, 49, 50, 51, 52, 53, 54, 55, 56, 45, 57, 97, 98, 99, 45, 100, 101, 102, 48, 45, 48, 49, 50, 51, 45, 52, 53, 54, 55, 56, 57, 97, 98, 99, 100, 101, 102>>,
       <<49, 50, 51, 52, 53, 54, 55, 56, 57, 97, 98, 99, 100, 101, 102, 48, 48, 49, 50, 51, 52, 53, 54, 55, 56, 57, 97, 98, 99, 100, 101, 102>>,
       <<49, 50, 51, 52, 53, 54, 55, 56, 45, 57, 97, 98, 99, 45, 100, 101, 102, 48, 45, 48, 49, 50, 51, 45, 52, 53, 54, 55, 56, 57, 97, 98, 99, 100, 101, 103>>,
       <<50, 48, 50, 53, 45, 49, 49, 45, 49, 53, 84, 49, 50, 58, 51, 48, 58, 48, 48, 90>>,
       <<49, 57, 55, 48, 45, 48, 49, 45, 48, 49, 84, 48, 48, 58, 48, 48, 58, 48, 48, 90>>,
       <<49, 57, 54, 57, 45, 49, 50, 45, 51, 49, 84, 50, 51, 58, 53, 57, 58, 53, 57, 90>>,
       <<50, 48, 48, 48, 45, 48, 50, 45, 50, 57, 84, 50, 51, 58, 53, 57, 58, 53, 57, 90>>,
       <<50, 50, 48, 48, 45, 48, 49, 45, 48, 49, 84, 48, 48, 58, 48, 48, 58, 48, 49, 90>>,
       <<49, 55, 48, 48, 45, 48, 49, 45, 48, 49, 84, 48, 48, 58, 48, 48, 58, 48, 49, 90>>,
       <<50, 50, 54, 51, 45, 48, 49, 45, 48, 49, 84, 48, 48, 58, 48, 48, 58, 48, 48, 90>>,
       <<57, 57, 57, 57, 45, 49, 50, 45, 51, 49, 84, 50, 51, 58, 53, 57, 58, 53, 57, 90>>,
       <<48, 48, 48, 49, 45, 48, 49, 45, 48, 49, 84, 48, 48, 58, 48, 48, 58, 48, 48, 90>>,
       <<50, 48, 50, 53, 45, 48, 50, 45, 51, 48, 84, 48, 48, 58, 48, 48, 58, 48, 48, 90>>,
       <<50, 48, 50, 53, 45, 49, 51, 45, 48, 49, 84, 48, 48, 58, 48, 48, 58, 48, 48, 90>>,
       <<50, 48, 50, 53, 45, 49, 49, 45, 49, 53, 84, 50, 52, 58, 48, 48, 58, 48, 48, 90>>,
       <<50, 48, 50, 53, 45, 49, 49, 45, 49, 53, 84, 49, 50, 58, 51, 48, 58, 54, 48, 90>>,
       <<50, 48, 50, 53, 45, 49, 49, 45, 49, 53, 84, 49, 50, 58, 51, 48, 58, 48, 48, 122>>,
       <<50, 48, 50, 53, 45, 49, 49, 45, 49, 53, 32, 49, 50, 58, 51, 48, 58, 48, 48, 90>>,
       <<50, 48, 50, 53, 45, 49, 49, 45, 49, 53, 84, 49, 50, 58, 51, 48, 58, 48, 48, 90, 10>>,
       <<50, 48, 50, 53, 45, 49, 49, 45, 49, 53, 84, 49, 50, 58, 51, 48, 58, 48, 48>>,
       <<>>,
       <<104, 101, 108, 108, 111>> >>

\* Other trees of the caller's own texts: integers at and beyond the int32
\* range, a float, and the object of test_json_to_binary_round_trip.
JsonOthers ==
    << JNull, JBool(FALSE), JInt(FALSE, <<123>>), JInt(TRUE, <<0, 0, 0, 128>>),
       JInt(FALSE, <<255, 255, 255, 127>>), JInt(FALSE, <<0, 0, 0, 128>>),
       JInt(FALSE, <<1, 0, 0, 0, 1>>), JFloat(<<191, 224, 0, 0, 0, 0, 0, 0>>),
       JArray(<<JString(JsonStrings[14]), JString(JsonStrings[1]), JArray(<<>>)>>),
       JObject(<<[key |-> <<97>>, val |-> JString(JsonStrings[25])],
                 [key |-> <<98>>, val |-> JObject(<<>>)]>>),
       JObject(<<[key |-> JsonStrings[21], val |-> JString(JsonStrings[30])]>>),
       JObject(<<[key |-> <<98, 105, 110, 97, 114, 121, 95, 112, 97, 100, 100, 101, 100>>,
                  val |-> JString(JsonStrings[1])],
                 [key |-> <<100, 97, 116, 101, 95, 117, 116, 99>>,
                  val |-> JString(JsonStrings[21])],
                 [key |-> <<105, 110, 116, 101, 103, 101, 114>>,
                  val |-> JInt(FALSE, <<123>>)]>>) >>
JsonGiven(i) ==
    IF i <= Len(JsonStrings) THEN JString(JsonStrings[i])
    ELSE JsonOthers[i - Len(JsonStrings)]
JsonGivenCount == Len(JsonStrings) + Len(JsonOthers)

\* The number literals the caller gives:
\*   0, -0, 1, -1, 258, 123, 2147483647, -2147483648, 2147483648,
\*   -2147483649, 4294967296, 4294967297, 9223372036854775807,
\*   9223372036854775808, 18446744073709551615, -9223372036854775808,
\*   18446744073709551616, -9223372036854775809, 100000000000000000000,
\*   1.0, 2.5, -0.5, 1e2, 0.1, 3.14, 1.5e3, 0.0, -0.0, 2147483648.0,
\*   9007199254740993, 9007199254740993.0
NumberLiterals ==
    << [neg |-> FALSE, int |-> <<48>>, frac |-> <<>>, e |-> 0 - 1],
       [neg |-> TRUE, int |-> <<48>>, frac |-> <<>>, e |-> 0 - 1],
       [neg |-> FALSE, int |-> <<49>>, frac |-> <<>>, e |-> 0 - 1],
       [neg |-> TRUE, int |-> <<49>>, frac |-> <<>>, e |-> 0 - 1],
       [neg |-> FALSE, int |-> <<50, 53, 56>>, frac |-> <<>>, e |-> 0 - 1],
       [neg |-> FALSE, int |-> <<49, 50, 51>>, frac |-> <<>>, e |-> 0 - 1],
       [neg |-> FALSE, int |-> <<50, 49, 52, 55, 52, 56, 51, 54, 52, 55>>, frac |-> <<>>, e |-> 0 - 1],
       [neg |-> TRUE, int |-> <<50, 49, 52, 55, 52, 56, 51, 54, 52, 56>>, frac |-> <<>>, e |-> 0 - 1],
       [neg |-> FALSE, int |-> <<50, 49, 52, 55, 52, 56, 51, 54, 52, 56>>, frac |-> <<>>, e |-> 0 - 1],
       [neg |-> TRUE, int |-> <<50, 49, 52, 55, 52, 56, 51, 54, 52, 57>>, frac |-> <<>>, e |-> 0 - 1],
       [neg |-> FALSE, int |-> <<52, 50, 57, 52, 57, 54, 55, 50, 57, 54>>, frac |-> <<>>, e |-> 0 - 1],
       [neg |-> FALSE, int |-> <<52, 50, 57, 52, 57, 54, 55, 50, 57, 55>>, frac |-> <<>>, e |-> 0 - 1],
       [neg |-> FALSE, int |-> <<57, 50, 50, 51, 51, 55, 50, 48, 51, 54, 56, 53, 52, 55, 55, 53, 56, 48, 55>>, frac |-> <<>>, e |-> 0 - 1],
       [neg |-> FALSE, int |-> <<57, 50, 50, 51, 51, 55, 50, 48, 51, 54, 56, 53, 52, 55, 55, 53, 56, 48, 56>>, frac |-> <<>>, e |-> 0 - 1],
       [neg |-> FALSE, int |-> <<49, 56, 52, 52, 54, 55, 52, 52, 48, 55, 51, 55, 48, 57, 53, 53, 49, 54, 49, 53>>, frac |-> <<>>, e |-> 0 - 1],
       [neg |-> TRUE, int |-> <<57, 50, 50, 51, 51, 55, 50, 48, 51, 54, 56, 53, 52, 55, 55, 53, 56, 48, 56>>, frac |-> <<>>, e |-> 0 - 1],
       [neg |-> FALSE, int |-> <<49, 56, 52, 52, 54, 55, 52, 52, 48, 55, 51, 55, 48, 57, 53, 53, 49, 54, 49, 54>>, frac |-> <<>>, e |-> 0 - 1],
       [neg |-> TRUE, int |-> <<57, 50, 50, 51, 51, 55, 50, 48, 51, 54, 56, 53, 52, 55, 55, 53, 56, 48, 57>>, frac |-> <<>>, e |-> 0 - 1],
       [neg |-> FALSE, int |-> <<49, 48, 48, 48, 48, 48, 48, 48, 48, 48, 48, 48, 48, 48, 48, 48, 48, 48, 48, 48, 48>>, frac |-> <<>>, e |-> 0 - 1],
       [neg |-> FALSE, int |-> <<49>>, frac |-> <<48>>, e |-> 0 - 1],
       [neg |-> FALSE, int |-> <<50>>, frac |-> <<53>>, e |-> 0 - 1],
       [neg |-> TRUE, int |-> <<48>>, frac |-> <<53>>, e |-> 0 - 1],
       [neg |-> FALSE, int |-> <<49>>, frac |-> <<>>, e |-> 2],
       [neg |-> FALSE, int |-> <<48>>, frac |-> <<49>>, e |-> 0 - 1],
       [neg |-> FALSE, int |-> <<51>>, frac |-> <<49, 52>>, e |-> 0 - 1],
       [neg |-> FALSE, int |-> <<49>>, frac |-> <<53>>, e |-> 3],
       [neg |-> FALSE, int |-> <<48>>, frac |-> <<48>>, e |-> 0 - 1],
       [neg |-> TRUE, int |-> <<48>>, frac |-> <<48>>, e |-> 0 - 1],
       [neg |-> FALSE, int |-> <<50, 49, 52, 55, 52, 56, 51, 54, 52, 56>>, frac |-> <<48>>, e |-> 0 - 1],
       [neg |-> FALSE, int |-> <<57, 48, 48, 55, 49, 57, 57, 50, 53, 52, 55, 52, 48, 57, 57, 51>>, frac |-> <<>>, e |-> 0 - 1],
       [neg |-> FALSE, int |-> <<57, 48, 48, 55, 49, 57, 57, 50, 53, 52, 55, 52, 48, 57, 57, 51>>, frac |-> <<48>>, e |-> 0 - 1] >>

\* nlohmann::json::parse of the text dump() gave for a tree: the tree
\* again, but for a float that is no number, which dump() writes as null.
IsFiniteDouble(bits) == DoubleExp(bits) # 2047
RECURSIVE Reparse(_)
Reparse(j) ==
    CASE j.j = "float" -> IF IsFiniteDouble(j.v) THEN j ELSE JNull
      [] j.j = "array" -> JArray([i \in 1..Len(j.v) |-> Reparse(j.v[i])])
      [] j.j = "object" ->
            JObject([i \in 1..Len(j.v) |-> [key |-> j.v[i].key, val |-> Reparse(j.v[i].val)]])
      [] OTHER -> j

NoText == [err |-> FALSE, text |-> <<>>]

JsonInit ==
    /\ heap = EmptyHeap
    /\ slots = [s \in Slots |-> Dead]
    /\ stream = MakeStream(<<>>)
    /\ calls = <<>>
    /\ last = [op |-> "init", j |-> JNull, out |-> NoText, again |-> NoText]

\* Value v(...); std::string text = format_json(v);
Formatted(b) ==
    /\ heap' = b.heap
    /\ slots' = [slots EXCEPT !["v1"] = b.val]
    /\ last' = [op |-> "format", j |-> to_json(b.heap, b.val),
                out |-> format_json(b.heap, b.val), again |-> NoText]
FormatJson(tree) ==
    /\ last.op = "init"
    /\ Formatted(BuildValue(heap, tree))
    /\ UNCHANGED <<stream, calls>>

\* format_binary(stream, v);
WriteBinary ==
    /\ last.op = "format"
    /\ stream' = MakeStream(format_binary(heap, slots["v1"]))
    /\ last' = [last EXCEPT !.op = "wrote"]
    /\ UNCHANGED <<heap, slots, calls>>

\* std::string text = "..."; a text of the caller's own, in the form
\* dump() writes its tree.
GiveJson(j) ==
    /\ last.op = "init"
    /\ last' = [op |-> "given", j |-> j, out |-> JsonDump(j), again |-> NoText]
    /\ UNCHANGED <<heap, slots, stream, calls>>

\* std::string text = "258"; a number as the caller wrote it.
GiveNumber(lit) ==
    /\ last.op = "init"
    /\ last' = [op |-> "number", j |-> ScanNumber(lit),
                out |-> [err |-> FALSE, text |-> NumberText(lit)], again |-> NoText]
    /\ UNCHANGED <<heap, slots, stream, calls>>

\* Value val = parse_json(text);
TextParsed(r) ==
    /\ heap' = r.heap
    /\ slots' = [slots EXCEPT !["v2"] = r.val]
    /\ calls' = Append(calls, [fn |-> "parse_json", err |-> r.err, val |-> r.val,
                               from |-> stream.pos, to |-> stream.pos])
ParseText(ub) ==
    /\ last.op \in {"format", "given", "number"}
    /\ ~last.out.err
    /\ TextParsed(parse_json([err |-> FALSE, j |-> Reparse(last.j)], heap, ub))
    /\ last' = [last EXCEPT !.op = IF last.op = "number" THEN "scanned" ELSE "parse"]
    /\ UNCHANGED stream

\* format_binary(binary_stream, val);
ToBinary ==
    /\ last.op = "parse"
    /\ stream' = MakeStream(format_binary(heap, slots["v2"]))
    /\ last' = [last EXCEPT !.op = "binary"]
    /\ UNCHANGED <<heap, slots, calls>>

\* Value final_val = parse_binary(binary_stream);
BinaryRead(r) ==
    /\ heap' = r.heap
    /\ stream' = r.s
    /\ slots' = [slots EXCEPT !["v3"] = IF r.err THEN Dead ELSE r.val]
    /\ calls' = Append(calls, [fn |-> "parse_binary", err |-> r.err,
                               val |-> IF r.err THEN Dead ELSE r.val,
                               from |-> stream.pos, to |-> r.s.pos])
FromBinary(ub) ==
    /\ last.op = "binary"
    /\ BinaryRead(parse_binary(stream, heap, ub))
    /\ last' = [last EXCEPT !.op = "read"]

\* std::string output = format_json(final_val);
FormatAgain ==
    /\ last.op = "read"
    /\ slots["v3"].t # "dead"
    /\ last' = [last EXCEPT !.op = "again", !.again = format_json(heap, slots["v3"])]
    /\ UNCHANGED <<heap, slots, stream, calls>>

JsonNext ==
    \/ \E i \in 1..Len(JsonValues) : FormatJson(JsonValues[i])
    \/ WriteBinary
    \/ \E i \in 1..JsonGivenCount : GiveJson(JsonGiven(i))
    \/ \E i \in 1..Len(NumberLiterals) : GiveNumber(NumberLiterals[i])
    \/ \E ub \in JsonIndeterminate : ParseText(ub)
    \/ ToBinary
    \/ \E ub \in {u \in Indeterminate : u.tc = 0} : FromBinary(ub)
    \/ FormatAgain

SpecJson == JsonInit /\ [][JsonNext]_vars

\* ------------------------------------------------------------------------
\* The caller reads a Value: std::get<T>(v.data), as the tests do after
\* every parse.  last = [op, kind, got]: the step just taken, the type
\* asked for and what std::get gave.

\* The alternatives of Value::variant_type, in the order of declaration.
Alternatives ==
    <<"Undef", "bool", "int32", "double", "string", "LLUUID", "LLDate", "URI", "Binary",
      "Array", "Map">>
\* The index of the active alternative.
VariantIndex(val) == CHOOSE i \in 1..Len(Alternatives) : Alternatives[i] = val.t
NothingGot == [err |-> FALSE, t |-> "none", v |-> 0]
\* (VariantGetUnchecked is the faulty variant that hands out the storage
\* whatever the active alternative is.)
VariantGetUnchecked(val, kind) == [err |-> FALSE, t |-> kind, v |-> val.v]
\* std::get<T>(v.data): a reference to the stored alternative, or
\* std::bad_variant_access when another alternative is active.
VariantGet(val, kind) ==
    IF VariantIndex(val) # (CHOOSE i \in 1..Len(Alternatives) : Alternatives[i] = kind)
    THEN [err |-> TRUE, t |-> "none", v |-> 0]
    ELSE [err |-> FALSE, t |-> kind, v |-> val.v]

GetInit ==
    /\ heap = EmptyHeap
    /\ slots = [s \in Slots |-> Dead]
    /\ stream = MakeStream(<<>>)
    /\ calls = <<>>
    /\ last = [op |-> "init", kind |-> "none", got |-> NothingGot]

Constructed(b) ==
    /\ heap' = b.heap
    /\ slots' = [slots EXCEPT !["v1"] = b.val]
\* Value v(...);
Construct(tree) ==
    /\ last.op = "init"
    /\ Constructed(BuildValue(heap, tree))
    /\ last' = [last EXCEPT !.op = "construct"]
    /\ UNCHANGED <<stream, calls>>

\* Value w = std::move(v);
MoveAway ==
    /\ last.op = "construct"
    /\ slots' = [slots EXCEPT !["v2"] = slots["v1"], !["v1"] = MovedFrom(slots["v1"])]
    /\ last' = [last EXCEPT !.op = "move"]
    /\ UNCHANGED <<heap, stream, calls>>

\* try { auto& x = std::get<T>(v.data); } catch (const std::bad_variant_access&) {}
Extract(kind) ==
    /\ last.op \in {"construct", "move"}
    /\ last' = [op |-> "get", kind |-> kind, got |-> VariantGet(slots["v1"], kind)]
    /\ UNCHANGED <<heap, slots, stream, calls>>

GetNext ==
    \/ \E i \in 1..Len(JsonValues) : Construct(JsonValues[i])
    \/ MoveAway
    \/ \E i \in 1..Len(Alternatives) : Extract(Alternatives[i])

SpecGet == GetInit /\ [][GetNext]_vars

\* ------------------------------------------------------------------------
\* JSON strings put together from a beginning, a middle and an end, so that
\* they begin with, hold, end with or nearly are the texts the recovery
\* chain of from_json looks for; each is parsed with parse_json.
\* last = [op, str]: the step just taken and the string.

\* '', 'data:base64,', 'data:base64', 'data:', 'd', '2'
Beginnings ==
    << <<>>,
       <<100, 97, 116, 97, 58, 98, 97, 115, 101, 54, 52, 44>>,
       <<100, 97, 116, 97, 58, 98, 97, 115, 101, 54, 52>>,
       <<100, 97, 116, 97, 58>>,
       <<100>>,
       <<50>> >>
\* '', two UUID texts, two date texts, and texts of 36 and 20 characters
\* that mix the two patterns, and 'AQID'
Middles ==
    << <<>>,
       <<49, 50, 51, 52, 53, 54, 55, 56, 45, 57, 97, 98, 99, 45, 100, 101, 102, 48, 45, 48, 49, 50, 51, 45, 52, 53, 54, 55, 56, 57, 97, 98, 99, 100, 101, 102>>,
       <<48, 48, 48, 48, 48, 48, 48, 48, 45, 48, 48, 48, 48, 45, 48, 48, 48, 48, 45, 48, 48, 48, 48, 45, 48, 48, 48, 48, 48, 48, 48, 48, 48, 48, 48, 48>>,
       <<50, 48, 50, 53, 45, 49, 49, 45, 49, 53, 84, 49, 50, 58, 51, 48, 58, 48, 48, 90>>,
       <<49, 57, 55, 48, 45, 48, 49, 45, 48, 49, 84, 48, 48, 58, 48, 48, 58, 48, 48, 90>>,
       <<49, 50, 51, 52, 45, 53, 54, 45, 55, 56, 84, 49, 50, 58, 51, 48, 58, 48, 48, 90, 99, 45, 100, 101, 102, 48, 45, 48, 49, 50, 51, 45, 52, 53, 54, 55>>,
       <<50, 48, 50, 53, 45, 49, 49, 45, 49, 53, 45, 49, 50, 51, 48, 45, 48, 48, 48, 48, 45, 48, 48, 48, 48, 45, 48, 48, 48, 48, 48, 48, 48, 48, 48, 48, 90>>,
       <<48, 48, 48, 48, 45, 48, 48, 45, 48, 48, 45, 48, 48, 48, 48, 45, 48, 48, 48, 48>>,
       <<65, 81, 73, 68>> >>
\* '', 'Z', '=', a line feed, and the end of a UUID text closed by Z
Endings ==
    << <<>>,
       <<90>>,
       <<61>>,
       <<10>>,
       <<45, 57, 97, 98, 99, 45, 100, 101, 102, 48, 45, 48, 49, 50, 51, 45, 52, 90>> >>

StrInit ==
    /\ heap = EmptyHeap
    /\ slots = [s \in Slots |-> Dead]
    /\ stream = MakeStream(<<>>)
    /\ calls = <<>>
    /\ last = [op |-> "init", str |-> <<>>]

\* std::string s = beginning + middle + end;
GiveString(str) ==
    /\ last.op = "init"
    /\ last' = [op |-> "string", str |-> str]
    /\ UNCHANGED <<heap, slots, stream, calls>>

\* Value v = parse_json(the JSON string of s);
Recovered(r) ==
    /\ heap' = r.heap
    /\ slots' = [slots EXCEPT !["v2"] = r.val]
Recover(ub) ==
    /\ last.op = "string"
    /\ Recovered(parse_json([err |-> FALSE, j |-> JString(last.str)], heap, ub))
    /\ last' = [last EXCEPT !.op = "recovered"]
    /\ UNCHANGED <<stream, calls>>

StrNext ==
    \/ \E p \in 1..Len(Beginnings), m \in 1..Len(Middles), e \in 1..Len(Endings) :
          GiveString(Beginnings[p] \o Middles[m] \o Endings[e])
    \/ \E ub \in JsonIndeterminate : Recover(ub)

SpecStr == StrInit /\ [][StrNext]_vars

\* ------------------------------------------------------------------------
\* Ownership properties.

\* Every pointer held by a constructed Value of the caller, at any depth.
AllPointers ==
    Pointers(heap, slots["v1"]) \o Pointers(heap, slots["v2"]) \o Pointers(heap, slots["v3"])

\* The tree of a slot before and after a step.
Before(s) == Contents(heap, slots[s])
After(s) == Contents(heap', slots'[s])

\* operator[] and assignment, and push_back, on trees.
TreeSubscript(tree, key) ==
    [tree EXCEPT !.v.items = MapSubscript(@, key)]
TreeMapPut(tree, key, val) ==
    LET items == MapSubscript(tree.v.items, key)
    IN  [tree EXCEPT !.v.items = [items EXCEPT ![MapFind(items, key)].val = val]]
TreePush(tree, val) == [tree EXCEPT !.v.items = Append(@, val)]

\* What a mutation through d may leave in d: an entry set to the scalar or
\* to a copy of the source (of d itself, after operator[] inserted the
\* entry), or an element appended.
MutationResults(d, s) ==
    IF Before(d).t = "Map"
    THEN {TreeMapPut(Before(d), key,
                     IF s = "" THEN OwnScalar
                     ELSE IF s = d THEN TreeSubscript(Before(d), key)
                     ELSE Before(s)) : key \in OwnKeys}
    ELSE {TreePush(Before(d), IF s = "" THEN OwnScalar ELSE Before(s))}

\* C2: copy independence.  A copy holds the contents of its source and
\* leaves every other Value as it was; a move hands the contents over; a
\* mutation through one Value changes that Value exactly as asked and is
\* observable through no other Value (a source it moved from aside).  Hence
\* after v2 = copy(v1), v3 = move(v1), no mutation through v2 changes v3,
\* which keeps the pre-copy contents of v1, and none through v3 changes v2.
C2_Step ==
    /\ last'.op = "copy" =>
          /\ After(last'.dst) = Before(last'.src)
          /\ \A s \in Slots \ {last'.dst} : After(s) = Before(s)
    /\ last'.op = "move" =>
          /\ After(last'.dst) = Before(last'.src)
          /\ \A s \in Slots \ {last'.dst, last'.src} : After(s) = Before(s)
    /\ last'.op = "mutate" =>
          /\ After(last'.dst) \in MutationResults(last'.dst, last'.src)
          /\ \A s \in Slots \ {last'.dst} :
                After(s) = IF s = last'.src /\ Before(s) # After(s)
                           THEN Contents(heap, MovedFrom(slots[s])) ELSE Before(s)
C2_CopyIndependence == [][C2_Step]_vars

\* The state test_cow_and_sharing ends in: the original moved to v3, the
\* copy v2 mutated twice, v1 left without a container.
C2_Witness ==
    /\ last.op = "mutate" /\ last.dst = "v2"
    /\ slots["v1"] = VMap(Null)
    /\ Contents(heap, slots["v3"]) = TMap(<<Entry(<<107>>, TArray(<<VInt(1)>>))>>)
    /\ Contents(heap, slots["v2"])
          = TMap(<<Entry(<<107>>, VInt(99)), Entry(<<110>>, VInt(99))>>)

\* C3: exclusive ownership.  No container is held by two pointers, at any
\* depth, and no pointer holds a released container.
C3_ExclusiveOwnership ==
    /\ \A i, j \in 1..Len(AllPointers) : i # j => AllPointers[i] # AllPointers[j]
    /\ \A i \in 1..Len(AllPointers) : Live(heap, AllPointers[i])

\* Two Values own equal nested containers after a copy.
C3_Witness ==
    /\ last.op = "copy" /\ last.dst # last.src
    /\ Len(Pointers(heap, slots[last.dst])) = 2
    /\ Len(Pointers(heap, slots[last.src])) = 2
    /\ Contents(heap, slots[last.dst]) = Contents(heap, slots[last.src])

\* C4: move semantics.  A move construction or assignment from a Value
\* holding an Array or Map gives the destination the very pointer the
\* source held, the container untouched, and leaves the source the null
\* pointer of the same kind.
C4_Step ==
    (last'.op = "move" /\ IsContainer(slots[last'.src])) =>
        /\ slots'[last'.dst] = slots[last'.src]
        /\ slots'[last'.src] = [t |-> slots[last'.src].t, v |-> Null]
        /\ slots[last'.src].v # Null =>
              /\ slots'[last'.dst].v # Null
              /\ Live(heap', slots'[last'.dst].v)
              /\ heap'[slots'[last'.dst].v] = heap[slots[last'.src].v]
ReachableValues ==
    {slots[s] : s \in {x \in Slots : IsLive(x)}}
        \cup UNION {{CellValues(heap[a])[i] : i \in 1..Len(heap[a].items)} : a \in LiveCells(heap)}
NullValues == {val \in ReachableValues : IsContainer(val) /\ val.v = Null}
OpenTag(val) == IF val.t = "Array" THEN TagArrayOpen ELSE TagMapOpen
CloseTag(val) == IF val.t = "Array" THEN TagArrayClose ELSE TagMapClose

\* C5: a Value whose Array or Map alternative holds a null pointer is
\* written by format_binary as the opening tag, a zero count and the
\* closing tag, by format_json as [] or {}, and copied to a Value holding a
\* null pointer of the same kind with no container allocated; no result
\* carries the mark of a read through the null pointer.
C5_NullContainerHandled ==
    \A val \in NullValues :
        /\ format_binary(heap, val) = <<OpenTag(val), 0, 0, 0, 0, CloseTag(val)>>
        /\ format_json(heap, val) = [err |-> FALSE, text |-> <<OpenTag(val), CloseTag(val)>>]
        /\ CopyValue(heap, val) = [heap |-> heap, val |-> [t |-> val.t, v |-> Null]]
        /\ last.op = "copy" /\ val = slots[last.src] => slots[last.dst] = val
\* A moved-from Map was copied to another Value.
C5_Witness ==
    /\ last.op = "copy" /\ last.dst # last.src
    /\ slots[last.src] = VMap(Null)
    /\ slots[last.dst] = VMap(Null)


\* ------------------------------------------------------------------------
\* Codec properties.

\* The k-th written Value, its encoding and where it ends in the stream.
Source(k) == slots[SlotSeq[k]]
Encoding(k) == format_binary(heap, Source(k))
RECURSIVE Offset(_)
Offset(k) == IF k = 0 THEN 0 ELSE Offset(k - 1) + Len(Encoding(k))

\* Where the tokens of an encoding sit, from the Value it encodes: the
\* value tags, the key tags, the closing tags and the first (sign) byte of
\* every length and count, as [kind, at], at counted from 0.
EncodedLen(h, val) == Len(format_binary(h, val))
RECURSIVE Layout(_, _, _)
RECURSIVE LayoutItems(_, _, _)
RECURSIVE LayoutEntries(_, _, _)
Layout(h, val, at) ==
    {[kind |-> "tag", at |-> at]} \cup
    (CASE val.t \in {"string", "URI", "Binary"} -> {[kind |-> "length", at |-> at + 1]}
       [] val.t = "Array" ->
            {[kind |-> "array count", at |-> at + 1],
             [kind |-> "array close", at |-> at + EncodedLen(h, val) - 1]}
            \cup (IF val.v = Null THEN {} ELSE LayoutItems(h, h[val.v].items, at + 5))
       [] val.t = "Map" ->
            {[kind |-> "map count", at |-> at + 1],
             [kind |-> "map close", at |-> at + EncodedLen(h, val) - 1]}
            \cup (IF val.v = Null THEN {} ELSE LayoutEntries(h, h[val.v].items, at + 5))
       [] OTHER -> {})
LayoutItems(h, items, at) ==
    IF items = <<>> THEN {}
    ELSE Layout(h, Head(items), at)
            \cup LayoutItems(h, Tail(items), at + EncodedLen(h, Head(items)))
LayoutEntries(h, entries, at) ==
    IF entries = <<>> THEN {}
    ELSE {[kind |-> "key", at |-> at], [kind |-> "key length", at |-> at + 1]}
            \cup Layout(h, Head(entries).val, at + 5 + Len(Head(entries).key))
            \cup LayoutEntries(h, Tail(entries),
                               at + 5 + Len(Head(entries).key)
                                  + EncodedLen(h, Head(entries).val))
\* The kinds of token at a place of the single written value.
KindsAt(at) == {tok.kind : tok \in {t \in Layout(heap, Source(1), 0) : t.at = at}}

\* Whether a tree has a null container in it.
RECURSIVE HasNull(_)
HasNull(tree) ==
    /\ tree.t \in {"Array", "Map"}
    /\ \/ tree.v.null
       \/ \E i \in 1..Len(tree.v.items) :
             HasNull(IF tree.t = "Array" THEN tree.v.items[i] ELSE tree.v.items[i].val)

\* The stream is as written.
AsWritten == last.op = "write"
\* The call reading the k-th written value has been made.
Read(k) == AsWritten /\ k <= last.n /\ k <= Len(calls) /\ calls[k].fn = "parse_binary"

\* C1: binary round trip.  Reading back what format_binary wrote for a
\* Value without null containers succeeds and gives a Value of the same
\* variant with structurally equal contents.
C1_BinaryRoundTrip ==
    \A k \in 1..Len(calls) :
        (Read(k) /\ ~HasNull(Contents(heap, Source(k)))) =>
            /\ ~calls[k].err
            /\ Contents(heap, calls[k].val) = Contents(heap, Source(k))

\* A nested Map with a Date in it has been written and read back equal.
C1_Witness ==
    /\ Read(1) /\ ~calls[1].err
    /\ Contents(heap, Source(1))
          = TMap(<<Entry(<<107>>, VInt(1)), Entry(<<110>>, VDate(TwoSeconds))>>)
    /\ Contents(heap, calls[1].val) = Contents(heap, Source(1))

\* C6: a successful parse_binary advances the stream by exactly the length
\* of the encoded value it returns and leaves what follows unread: the
\* k-th call on a stream of well-formed encodings starts where the k-th
\* encoding starts, ends where it ends, and returns what parse_binary
\* returns for that encoding alone.
C6_Alone(k) ==
    parse_binary(MakeStream(Encoding(k)), EmptyHeap, [tc |-> 0, i64 |-> I64Zero])
C6_AdvancesExactly ==
    \A k \in 1..Len(calls) :
        Read(k) =>
            /\ ~calls[k].err
            /\ calls[k].from = Offset(k - 1)
            /\ calls[k].to = Offset(k)
            /\ Contents(heap, calls[k].val) = Contents(C6_Alone(k).heap, C6_Alone(k).val)
            /\ (k = Len(calls) => stream.pos = Offset(k) /\ stream.good)

\* Two values were written and the second call returned the second, an Array.
C6_Witness ==
    /\ Read(2) /\ ~calls[2].err
    /\ calls[2].from > 0
    /\ Contents(heap, calls[2].val) = TArray(<<VInt(1), VString(<<97>>)>>)

\* C7: parse_binary fails when a declared length or count is negative,
\* wherever one is read: String, URI, Binary, map key, Array element count
\* and Map entry count.
C7_Negative ==
    /\ last.op = "damage" /\ last.byte >= 128
    /\ KindsAt(last.at) \cap {"length", "key length", "array count", "map count"} # {}
C7_NegativeLengthFails ==
    (C7_Negative /\ Len(calls) >= 1) => calls[1].err

\* C8: parse_binary fails, returning no Value, on a malformed token at any
\* depth: a byte that is no tag where a value starts, a byte other than
\* 'k' where a key starts, a byte other than the closing tag where a
\* container ends.
ValidTags ==
    {TagUndef, TagFalse, TagTrue, TagInt, TagReal, TagString, TagUUID, TagURI,
     TagBinary, TagDate, TagArrayOpen, TagMapOpen}
C8_Malformed ==
    /\ last.op = "damage"
    /\ \/ "tag" \in KindsAt(last.at) /\ last.byte \notin ValidTags
       \/ KindsAt(last.at) \cap {"key", "array close", "map close"} # {}
C8_MalformedTokenFails ==
    (C8_Malformed /\ Len(calls) >= 1) => (calls[1].err /\ calls[1].val = Dead)

\* A key tag two containers deep is not 'k', and the call has failed.
C8_Witness ==
    /\ C8_Malformed /\ Len(calls) >= 1 /\ calls[1].err
    /\ "key" \in KindsAt(last.at) /\ last.at > 15

\* C9: parse_binary fails on a truncated stream: one that ends within a
\* fixed-width payload, within a declared length, or before a key tag, an
\* element or a closing tag, in the first iteration of a loop or a later.
C9_TruncatedFails ==
    (last.op = "truncate" /\ last.at >= 1 /\ Len(calls) >= 1) => calls[1].err

\* The stream ends where the second key tag of a Map was, and the call
\* has failed.
C9_Witness ==
    /\ last.op = "truncate" /\ Len(calls) >= 1 /\ calls[1].err
    /\ "key" \in KindsAt(last.at)
    /\ \E tok \in Layout(heap, Source(1), 0) : tok.kind = "key" /\ tok.at < last.at

\* ------------------------------------------------------------------------
\* Parse calls, parse_binary and parse_json alike.

\* A parse call is made in this step; what it yielded.
Called == Len(calls') = Len(calls) + 1
Outcome == calls'[Len(calls')]
\* The containers a Value owns, at any depth.
Owned(h, val) == {Pointers(h, val)[i] : i \in 1..Len(Pointers(h, val))}
\* A Value is complete: every pointer in it holds a live container that
\* no other pointer in it holds.
Complete(h, val) ==
    /\ val # Dead
    /\ \A a \in Owned(h, val) : Live(h, a)
    /\ Cardinality(Owned(h, val)) = Len(Pointers(h, val))
\* What the caller held before the call is as it was.
CallerKept ==
    /\ slots' = slots
    /\ \A a \in LiveCells(heap) : Live(heap', a) /\ heap'[a] = heap[a]
\* The call succeeded with one complete Value whose containers are new and
\* are all that the call left on the heap.
Succeeded ==
    /\ ~Outcome.err
    /\ Complete(heap', Outcome.val)
    /\ Owned(heap', Outcome.val) \cap LiveCells(heap) = {}
    /\ LiveCells(heap') = LiveCells(heap) \cup Owned(heap', Outcome.val)
\* The call failed, returning no Value and leaving no container behind.
Failed ==
    /\ Outcome.err
    /\ Outcome.val = Dead
    /\ heap' = heap
\* The stream after a failed call: its bytes are as they were; what
\* parse_binary extracted stays extracted and an error bit may be set,
\* parse_json has no stream.
StreamConsumed ==
    /\ stream'.data = stream.data
    /\ stream'.pos >= stream.pos
    /\ Outcome.fn = "parse_json" => stream' = stream

\* C10 as stated: every parse call either succeeds with one complete Value
\* or fails leaving nothing behind and nothing changed, the stream's read
\* position and status included.
C10_Stated == Called => (CallerKept /\ (Succeeded \/ (Failed /\ stream' = stream)))
C10_NoSideEffectsAtAll == [][C10_Stated]_vars

\* C10 amended: every parse call either succeeds with one complete Value
\* or fails returning no Value and retaining no partially built container;
\* a failed call changes nothing the caller holds except the stream
\* parse_binary read from, whose consumed bytes stay consumed and whose
\* error bits may be set.
C10_Amended == Called => (CallerKept /\ (Succeeded \/ (Failed /\ StreamConsumed)))
C10_AllOrNothing == [][C10_Amended]_vars

\* parse_binary failed at the second key of a Map after building the Map
\* and its first entry: the bytes are consumed, the stream is in error and
\* the heap holds the caller's Map only.
C10_Witness ==
    /\ last.op = "truncate" /\ Len(calls) >= 1
    /\ calls[1].fn = "parse_binary" /\ calls[1].err /\ calls[1].val = Dead
    /\ "key" \in KindsAt(last.at) /\ calls[1].to > calls[1].from + 5
    /\ ~stream.good
    /\ LiveCells(heap) = Owned(heap, Source(1))

\* ------------------------------------------------------------------------
\* JSON codec properties (SpecJson).  slots.v1 is the Value the caller
\* formatted, slots.v2 what parse_json made of the text, slots.v3 what
\* parse_binary read back.
Formatted1 == slots["v1"].t # "dead"
Parsed2 == slots["v2"].t # "dead"
\* A Value is of a kind and holds a payload.
Is(val, kind, payload) == val.t = kind /\ val.v = payload

\* The three patterns of JSON string recovery, as the specification words
\* them: the literal prefix data:base64, ; 8-4-4-4-12 lowercase hex digits
\* between hyphens; DDDD-DD-DDTDD:DD:DDZ with D a decimal digit.
LowerHex == {48, 49, 50, 51, 52, 53, 54, 55, 56, 57, 97, 98, 99, 100, 101, 102}
Decimal == {48, 49, 50, 51, 52, 53, 54, 55, 56, 57}
BeginsDataBase64(str) ==
    /\ Len(str) >= 12
    /\ SubSeq(str, 1, 12) = <<100, 97, 116, 97, 58, 98, 97, 115, 101, 54, 52, 44>>
AllIn(str, from, to, set) == \A i \in from..to : str[i] \in set
IsUUIDText(str) ==
    /\ Len(str) = 8 + 1 + 4 + 1 + 4 + 1 + 4 + 1 + 12
    /\ AllIn(str, 1, 8, LowerHex) /\ str[9] = 45
    /\ AllIn(str, 10, 13, LowerHex) /\ str[14] = 45
    /\ AllIn(str, 15, 18, LowerHex) /\ str[19] = 45
    /\ AllIn(str, 20, 23, LowerHex) /\ str[24] = 45
    /\ AllIn(str, 25, 36, LowerHex)
IsDateText(str) ==
    /\ Len(str) = 20
    /\ AllIn(str, 1, 4, Decimal) /\ str[5] = 45
    /\ AllIn(str, 6, 7, Decimal) /\ str[8] = 45
    /\ AllIn(str, 9, 10, Decimal) /\ str[11] = 84
    /\ AllIn(str, 12, 13, Decimal) /\ str[14] = 58
    /\ AllIn(str, 15, 16, Decimal) /\ str[17] = 58
    /\ AllIn(str, 18, 19, Decimal) /\ str[20] = 90
IsPlainText(str) == ~BeginsDataBase64(str) /\ ~IsUUIDText(str) /\ ~IsDateText(str)

\* C11 as stated: a URI formatted with format_json and parsed back with
\* parse_json is, for every URI text, a String holding the URI's text.
C11_URIComesBackAsString ==
    (Formatted1 /\ Parsed2 /\ slots["v1"].t = "URI") => Is(slots["v2"], "string", slots["v1"].v)

\* C11 amended: a URI formatted with format_json and parsed back with
\* parse_json is a String holding the URI's text for every URI text that
\* neither begins with data:base64, nor matches the UUID or the date
\* pattern; a text that does comes back as Binary, UUID or Date, as the
\* JSON string of that text does; in no case is the result a URI.
C11_PlainURIComesBackAsString ==
    (Formatted1 /\ Parsed2 /\ slots["v1"].t = "URI") =>
        /\ slots["v2"].t # "URI"
        /\ IsPlainText(slots["v1"].v) => Is(slots["v2"], "string", slots["v1"].v)
        /\ BeginsDataBase64(slots["v1"].v) => slots["v2"].t = "Binary"
        /\ (~BeginsDataBase64(slots["v1"].v) /\ IsUUIDText(slots["v1"].v))
              => slots["v2"].t = "LLUUID"
        /\ (~BeginsDataBase64(slots["v1"].v) /\ ~IsUUIDText(slots["v1"].v)
              /\ IsDateText(slots["v1"].v)) => slots["v2"].t = "LLDate"
\* URI "http://example.com" came back as the String "http://example.com".
C11_Witness ==
    /\ Is(slots["v1"], "URI", <<104, 116, 116, 112, 58, 47, 47, 101, 120, 97, 109, 112,
                                108, 101, 46, 99, 111, 109>>)
    /\ Is(slots["v2"], "string", slots["v1"].v)

\* The alternatives parse_json may produce, and a Value that is one of
\* them, a container holding a live Array or Map.
JsonKinds ==
    {"Undef", "bool", "int32", "double", "string", "LLUUID", "LLDate", "Binary", "Array", "Map"}
IsJsonKind(h, val) ==
    /\ val.t \in JsonKinds
    /\ IsContainer(val) => (val.v # Null /\ Live(h, val.v) /\ h[val.v].k = val.t)
ElementsAreJsonKinds(h, a) ==
    \A i \in 1..Len(h[a].items) : IsJsonKind(h, CellValues(h[a])[i])

\* C12: the Value parse_json returns holds no URI at any depth; it and
\* every element in it is Undefined, Boolean, Integer, Real, String, UUID,
\* Date, Binary, or an Array or Map whose container is not null.
C12_NoURIFromJson ==
    Parsed2 =>
        /\ IsJsonKind(heap, slots["v2"])
        /\ \A a \in Owned(heap, slots["v2"]) : ElementsAreJsonKinds(heap, a)
\* A Map with a URI two containers deep was formatted and its text parsed
\* into a Map, an Array and a Map.
C12_Witness ==
    /\ Formatted1 /\ Parsed2
    /\ \E a \in Owned(heap, slots["v1"]) :
          \E i \in 1..Len(heap[a].items) : CellValues(heap[a])[i].t = "URI"
    /\ slots["v2"].t = "Map"
    /\ Cardinality(Owned(heap, slots["v2"])) = 3

\* The JSON string parse_json was given, once it has been parsed.
StringParsed == Parsed2 /\ last.j.j = "string"
\* The value of a lowercase hex digit, where the hex digits of a UUID text
\* stand, and the byte each pair of them gives.
DigitOfHex(c) == IF c \in Decimal THEN c - 48 ELSE c - 97 + 10
UUIDDigitAt == <<1, 3, 5, 7, 10, 12, 15, 17, 20, 22, 25, 27, 29, 31, 33, 35>>
UUIDBytesOf(str) ==
    [k \in 1..16 |-> 16 * DigitOfHex(str[UUIDDigitAt[k]]) + DigitOfHex(str[UUIDDigitAt[k] + 1])]
\* The checked byte sequences whose padded base64 text is rem.
BinaryWritten(k) == JsonValues[k].t = "Binary"
EncodedAs(rem) ==
    {k \in 1..Len(JsonValues) : BinaryWritten(k) /\ B64Encode(JsonValues[k].v, 0) = rem}

\* C13: a JSON string beginning with data:base64, becomes the Binary its
\* remainder decodes to; otherwise a string that is wholly 8-4-4-4-12
\* lowercase hex groups becomes the UUID of those 16 bytes in order;
\* otherwise a string that is wholly DDDD-DD-DDTDD:DD:DDZ becomes a Date;
\* any other string (uppercase hex, extra leading or trailing characters)
\* becomes the String of the same bytes.
C13_StringRecoveryChain ==
    StringParsed =>
        IF BeginsDataBase64(last.j.v)
        THEN /\ slots["v2"].t = "Binary"
             /\ \A k \in EncodedAs(SubSeq(last.j.v, 13, Len(last.j.v))) :
                    slots["v2"].v = JsonValues[k].v
        ELSE IF IsUUIDText(last.j.v) THEN Is(slots["v2"], "LLUUID", UUIDBytesOf(last.j.v))
        ELSE IF IsDateText(last.j.v) THEN slots["v2"].t = "LLDate"
        ELSE Is(slots["v2"], "string", last.j.v)
\* The text data:base64, followed by a UUID text was parsed: the first
\* link of the chain took it, and it became a Binary.
C13_Witness ==
    /\ StringParsed /\ last.op = "parse"
    /\ BeginsDataBase64(last.j.v)
    /\ IsUUIDText(SubSeq(last.j.v, 13, Len(last.j.v)))
    /\ slots["v2"].t = "Binary"

\* The text format_json gave the Value the caller formatted, and the
\* vocabulary of JSON texts: a quoted string and what is between its
\* quotes, a payload that is written without escapes, a decimal integer.
IsQuoted(text) == Len(text) >= 2 /\ text[1] = 34 /\ text[Len(text)] = 34
Inner(text) == SubSeq(text, 2, Len(text) - 1)
Quoted(str) == <<34>> \o str \o <<34>>
NeedsNoEscape(str) == \A i \in 1..Len(str) : str[i] >= 32 /\ str[i] < 128 /\ str[i] \notin {34, 92}
IsUtf8Text(str) == ValidUtf8(str)
\* The negated value of a sequence of decimal digits (negated, so that the
\* digits of -2^31 have one).
RECURSIVE NegatedValue(_)
NegatedValue(digits) ==
    IF digits = <<>> THEN 0
    ELSE 10 * NegatedValue(SubSeq(digits, 1, Len(digits) - 1)) - (digits[Len(digits)] - 48)
IsDecimal(digits) ==
    /\ digits # <<>> /\ AllIn(digits, 1, Len(digits), Decimal)
    /\ Len(digits) > 1 => digits[1] # 48
IsIntegerText(text, n) ==
    IF n < 0 THEN /\ Len(text) >= 2 /\ text[1] = 45
                  /\ IsDecimal(SubSeq(text, 2, Len(text)))
                  /\ NegatedValue(SubSeq(text, 2, Len(text))) = n
    ELSE IsDecimal(text) /\ NegatedValue(text) = 0 - n
\* A JSON number begins with a digit or a minus sign.
IsNumberText(text) == text # <<>> /\ text[1] \in Decimal \cup {45}
Base64Alphabet ==
    (65..90) \cup (97..122) \cup (48..57) \cup {43, 47}
IsBinaryText(text, n) ==
    /\ BeginsDataBase64(text)
    /\ Len(text) = 12 + 4 * ((n + 2) \div 3)
    /\ AllIn(text, 13, Len(text), Base64Alphabet \cup {61})
\* Containers the caller formats, each as the bytes format_binary gives it
\* and the compact text with sorted keys: [], {}, [2,1,"a"],
\* {"a":true,"m":null,"z":1} (built in the order z, a, m) and
\* {"aa":"h:","b":[{"k":"data:base64,Bw=="}]} (built in the order b, aa),
\* {"key":1} and [1,2].
ContainerTexts ==
    << <<<<91, 0, 0, 0, 0, 93>>, <<91, 93>>>>,
       <<<<123, 0, 0, 0, 0, 125>>, <<123, 125>>>>,
       <<<<91, 0, 0, 0, 3, 105, 0, 0, 0, 2, 105, 0, 0, 0, 1, 115, 0, 0, 0, 1, 97, 93>>,
         <<91, 50, 44, 49, 44, 34, 97, 34, 93>>>>,
       <<<<123, 0, 0, 0, 3, 107, 0, 0, 0, 1, 97, 49, 107, 0, 0, 0, 1, 109, 33, 107, 0, 0, 0,
           1, 122, 105, 0, 0, 0, 1, 125>>,
         <<123, 34, 97, 34, 58, 116, 114, 117, 101, 44, 34, 109, 34, 58, 110, 117, 108, 108,
           44, 34, 122, 34, 58, 49, 125>>>>,
       <<<<123, 0, 0, 0, 2, 107, 0, 0, 0, 2, 97, 97, 108, 0, 0, 0, 2, 104, 58, 107, 0, 0, 0,
           1, 98, 91, 0, 0, 0, 1, 123, 0, 0, 0, 1, 107, 0, 0, 0, 1, 107, 98, 0, 0, 0, 1, 7,
           125, 93, 125>>,
         <<123, 34, 97, 97, 34, 58, 34, 104, 58, 34, 44, 34, 98, 34, 58, 91, 123, 34, 107,
           34, 58, 34, 100, 97, 116, 97, 58, 98, 97, 115, 101, 54, 52, 44, 66, 119, 61, 61,
           34, 125, 93, 125>>>>,
       <<<<123, 0, 0, 0, 1, 107, 0, 0, 0, 3, 107, 101, 121, 105, 0, 0, 0, 1, 125>>,
         <<123, 34, 107, 101, 121, 34, 58, 49, 125>>>>,
       <<<<91, 0, 0, 0, 2, 105, 0, 0, 0, 1, 105, 0, 0, 0, 2, 93>>,
         <<91, 49, 44, 50, 93>>>> >>
IsContainerText(text, bytes) ==
    /\ \E k \in 1..Len(ContainerTexts) : ContainerTexts[k][1] = bytes
    /\ \A k \in 1..Len(ContainerTexts) : ContainerTexts[k][1] = bytes => ContainerTexts[k][2] = text

\* The text is the one the mapping gives a Value of each variant.
IsTextOf(text, h, val) ==
    CASE val.t = "Undef" -> text = <<110, 117, 108, 108>>
      [] val.t = "bool" -> text = (IF val.v THEN <<116, 114, 117, 101>>
                                   ELSE <<102, 97, 108, 115, 101>>)
      [] val.t = "int32" -> IsIntegerText(text, val.v)
      [] val.t = "double" -> IsNumberText(text)
      [] val.t \in {"string", "URI"} ->
            /\ IsQuoted(text)
            /\ NeedsNoEscape(val.v) => Inner(text) = val.v
      [] val.t = "LLUUID" ->
            IsQuoted(text) /\ IsUUIDText(Inner(text)) /\ UUIDBytesOf(Inner(text)) = val.v
      [] val.t = "LLDate" -> IsQuoted(text) /\ IsDateText(Inner(text))
      [] val.t = "Binary" ->
            /\ IsQuoted(text) /\ IsBinaryText(Inner(text), Len(val.v))
            /\ val.v = <<1, 2, 3>> =>
                  text = Quoted(<<100, 97, 116, 97, 58, 98, 97, 115, 101, 54, 52, 44, 65, 81, 73, 68>>)
      [] val.t \in {"Array", "Map"} -> IsContainerText(text, format_binary(h, val))

\* C14: format_json writes Undefined as null, a Boolean, Integer or Real
\* as the JSON boolean or number, a String or URI as the JSON string of its
\* payload, a UUID or Date as its canonical string, a Binary as
\* data:base64, and its padded base64 ({1,2,3} as data:base64,AQID), an
\* Array as the array of its elements in order and a Map as an object, the
\* text compact and the keys ascending whatever the order of insertion.
C14_FormatJsonMapping ==
    (Formatted1 /\ (slots["v1"].t \in {"string", "URI"} => IsUtf8Text(slots["v1"].v))) =>
        /\ ~last.out.err
        /\ IsTextOf(last.out.text, heap, slots["v1"])

\* The base64 text of n bytes: 4 * ceil(n / 3) characters, alphabet
\* characters followed by one '=' for each byte the last group lacks.
PaddingOf(n) == (3 - (n % 3)) % 3
IsPaddedBase64(text, n) ==
    /\ Len(text) = 4 * ((n + 2) \div 3)
    /\ AllIn(text, 1, Len(text) - PaddingOf(n), Base64Alphabet)
    /\ AllIn(text, Len(text) - PaddingOf(n) + 1, Len(text), {61})
BinaryFormatted == Formatted1 /\ slots["v1"].t = "Binary"

\* C15: for a Binary b of any length the encoder writes 4 * ceil(|b| / 3)
\* alphabet characters with '=' padding after data:base64, ; from_base64
\* of that text is b, no byte dropped or added, so that parse_json of the
\* text format_json gave is the Binary b; AQIDBA== decodes to {1,2,3,4}.
C15_Base64RoundTrip ==
    /\ BinaryFormatted =>
          /\ ~last.out.err /\ IsQuoted(last.out.text)
          /\ BeginsDataBase64(Inner(last.out.text))
          /\ IsPaddedBase64(SubSeq(Inner(last.out.text), 13, Len(Inner(last.out.text))),
                            Len(slots["v1"].v))
          /\ \A ub \in JsonIndeterminate :
                from_base64(SubSeq(Inner(last.out.text), 13, Len(Inner(last.out.text))), ub.t)
                    = slots["v1"].v
    /\ (BinaryFormatted /\ Parsed2) => Is(slots["v2"], "Binary", slots["v1"].v)
    /\ (StringParsed /\ last.j.v = JsonStrings[1]) => Is(slots["v2"], "Binary", <<1, 2, 3, 4>>)
\* The 13 bytes 80 40 20 10 08 04 02 01 00 FF 7F 3F 1F were written as 20
\* characters, the last two '=', and parsed back.
C15_Witness ==
    /\ BinaryFormatted /\ Parsed2
    /\ slots["v1"].v = <<128, 64, 32, 16, 8, 4, 2, 1, 0, 255, 127, 63, 31>>
    /\ Len(last.out.text) = 2 + 12 + 20
    /\ SubSeq(last.out.text, Len(last.out.text) - 2, Len(last.out.text) - 1) = <<61, 61>>
    /\ Is(slots["v2"], "Binary", slots["v1"].v)

\* Base64 decoding as the specification words it.  The alphabet characters
\* before the first '=' are consumed, each standing for the 6 bits of its
\* place in the alphabet; byte j of the result is bits 8j-8 .. 8j-1 of the
\* groups laid end to end.
Alphabet ==
    <<65, 66, 67, 68, 69, 70, 71, 72, 73, 74, 75, 76, 77, 78, 79, 80, 81, 82, 83, 84, 85, 86,
      87, 88, 89, 90, 97, 98, 99, 100, 101, 102, 103, 104, 105, 106, 107, 108, 109, 110, 111,
      112, 113, 114, 115, 116, 117, 118, 119, 120, 121, 122, 48, 49, 50, 51, 52, 53, 54, 55,
      56, 57, 43, 47>>
PlaceInAlphabet(c) == (CHOOSE i \in 1..64 : Alphabet[i] = c) - 1
BeforePadding(str) ==
    SubSeq(str, 1, Cardinality({i \in 1..Len(str) : \A k \in 1..i : str[k] # 61}))
Consumed(str) == SelectSeq(BeforePadding(str), LAMBDA c : c \in Base64Alphabet)
BitAt(chars, p) == (PlaceInAlphabet(chars[(p \div 6) + 1]) \div (2 ^ (5 - (p % 6)))) % 2
ByteAt(chars, j) ==
    128 * BitAt(chars, 8 * j - 8) + 64 * BitAt(chars, 8 * j - 7)
        + 32 * BitAt(chars, 8 * j - 6) + 16 * BitAt(chars, 8 * j - 5)
        + 8 * BitAt(chars, 8 * j - 4) + 4 * BitAt(chars, 8 * j - 3)
        + 2 * BitAt(chars, 8 * j - 2) + BitAt(chars, 8 * j - 1)
Decoded(str) == [j \in 1..((6 * Len(Consumed(str))) \div 8) |-> ByteAt(Consumed(str), j)]
\* The remainder of a data:base64, string that was parsed.
Base64Parsed == StringParsed /\ BeginsDataBase64(last.j.v)
Remainder == SubSeq(last.j.v, 13, Len(last.j.v))

\* C16: from_base64 of any string, whatever bytes it holds, skips the
\* characters outside the alphabet before the first '=', ignores what
\* follows the first '=', returns the floor(6k / 8) bytes of the k
\* alphabet characters consumed, padded or not and of any length, and
\* never indexes its table outside 0..255.
C16_DecodeAnyString ==
    Base64Parsed =>
        /\ Is(slots["v2"], "Binary", Decoded(Remainder))
        /\ \A i \in 1..Len(BeforePadding(Remainder)) :
              B64Index(BeforePadding(Remainder)[i]) \in 0..255

\* Canonical JSON: what a date text says, and whether there is such an
\* instant on the UTC calendar.
DigitsAt(str, i, n) ==
    IF n = 2 THEN 10 * (str[i] - 48) + (str[i + 1] - 48)
    ELSE 1000 * (str[i] - 48) + 100 * (str[i + 1] - 48) + 10 * (str[i + 2] - 48)
            + (str[i + 3] - 48)
IsLeapYear(y) == (y % 4 = 0 /\ y % 100 # 0) \/ y % 400 = 0
DaysInMonth(y, m) ==
    IF m = 2 THEN (IF IsLeapYear(y) THEN 29 ELSE 28)
    ELSE IF m \in {4, 6, 9, 11} THEN 30 ELSE 31
IsValidDateText(str) ==
    /\ IsDateText(str)
    /\ DigitsAt(str, 6, 2) \in 1..12
    /\ DigitsAt(str, 9, 2) \in 1..DaysInMonth(DigitsAt(str, 1, 4), DigitsAt(str, 6, 2))
    /\ DigitsAt(str, 12, 2) \in 0..23
    /\ DigitsAt(str, 15, 2) \in 0..59
    /\ DigitsAt(str, 18, 2) \in 0..59
\* A data:base64, string whose remainder is the padded text of the bytes
\* it decodes to.
IsCanonicalBase64(str) ==
    /\ BeginsDataBase64(str)
    /\ AllIn(str, 13, Len(str), Base64Alphabet \cup {61})
    /\ B64Encode(Decoded(SubSeq(str, 13, Len(str))), 0) = SubSeq(str, 13, Len(str))
IsCanonicalString(str) ==
    \/ IsPlainText(str) /\ IsUtf8Text(str)
    \/ IsCanonicalBase64(str)
    \/ ~BeginsDataBase64(str) /\ IsUUIDText(str)
    \/ ~BeginsDataBase64(str) /\ IsValidDateText(str)
\* An integer of the tree is within the signed 32-bit range.
IsInt32(n) ==
    \/ Len(n.mag) < 4
    \/ Len(n.mag) = 4 /\ n.mag[4] < 128
    \/ n.neg /\ n.mag = <<0, 0, 0, 128>>
\* The tree of a canonical text: keys ascending, integers in range, floats
\* finite, strings canonical, at every depth.
RECURSIVE IsCanonical(_)
IsCanonical(j) ==
    CASE j.j = "integer" -> IsInt32(j.v)
      [] j.j = "float" -> IsFiniteDouble(j.v)
      [] j.j = "string" -> IsCanonicalString(j.v)
      [] j.j \in {"array", "object"} ->
            /\ j.j = "object" =>
                  /\ \A i \in 1..(Len(j.v) - 1) : KeyLess(j.v[i].key, j.v[i + 1].key)
                  /\ \A i \in 1..Len(j.v) : IsUtf8Text(j.v[i].key)
            /\ \A i \in 1..Len(j.v) : IsCanonical(IF j.j = "object" THEN j.v[i].val ELSE j.v[i])
      [] OTHER -> TRUE

\* C17: for every canonical JSON text t (compact, keys ascending, integers
\* within 32 bits, strings plain, canonical data:base64, canonical UUID or
\* valid UTC date), format_json(parse_binary(format_binary(parse_json(t))))
\* is t byte for byte.
C17_JsonBinaryJsonIdentity ==
    IsCanonical(last.j) =>
        /\ last.op \in {"given", "format"} => ~last.out.err
        /\ last.op = "read" => slots["v3"].t # "dead"
        /\ last.op = "again" => (~last.again.err /\ last.again.text = last.out.text)

\* A JSON string matching the date pattern was parsed.
DateTextParsed == StringParsed /\ IsDateText(last.j.v)

\* C18: every JSON string that matches YYYY-MM-DDTHH:MM:SSZ is parsed as
\* a Date, read as UTC, whose canonical string (LLDate::toString, and so
\* the text format_json writes) is the input string byte for byte.
C18_DateTextPreserved ==
    DateTextParsed =>
        /\ slots["v2"].t = "LLDate"
        /\ DateToString(slots["v2"].v) = last.j.v
        /\ format_json(heap, slots["v2"]) = [err |-> FALSE, text |-> Quoted(last.j.v)]

\* A UUID was formatted.
UUIDFormatted == Formatted1 /\ slots["v1"].t = "LLUUID"

\* C19: for a UUID u of 16 bytes LLUUID::toString is 36 characters:
\* lowercase hex in 8-4-4-4-12 groups, two digits for each byte (a leading
\* zero kept) in byte order; format_json writes that string, and
\* parse_json of the text is the UUID of the same 16 bytes.
C19_UUIDCanonicalRoundTrip ==
    /\ UUIDFormatted =>
          /\ Len(UUIDToString(slots["v1"].v)) = 36
          /\ IsUUIDText(UUIDToString(slots["v1"].v))
          /\ UUIDBytesOf(UUIDToString(slots["v1"].v)) = slots["v1"].v
          /\ last.out = [err |-> FALSE, text |-> Quoted(UUIDToString(slots["v1"].v))]
    /\ (UUIDFormatted /\ Parsed2) => Is(slots["v2"], "LLUUID", slots["v1"].v)
\* The UUID 00 01 02 ... 0f, every byte with a leading zero, was written
\* as "00010203-0405-0607-0809-0a0b0c0d0e0f" and parsed back.
C19_Witness ==
    /\ UUIDFormatted /\ Parsed2
    /\ slots["v1"].v = <<0, 1, 2, 3, 4, 5, 6, 7, 8, 9, 10, 11, 12, 13, 14, 15>>
    /\ Inner(last.out.text) =
          <<48, 48, 48, 49, 48, 50, 48, 51, 45, 48, 52, 48, 53, 45, 48, 54, 48, 55, 45, 48, 56,
            48, 57, 45, 48, 97, 48, 98, 48, 99, 48, 100, 48, 101, 48, 102>>
    /\ Is(slots["v2"], "LLUUID", slots["v1"].v)

\* The wire table, as the specification words it.  A 32-bit integer is 4
\* bytes big-endian two's complement; a negative n is the complement of
\* -(n + 1).
BigEndian32(n) ==
    IF n >= 0 THEN <<n \div 16777216, (n \div 65536) % 256, (n \div 256) % 256, n % 256>>
    ELSE <<255 - ((0 - (n + 1)) \div 16777216), 255 - (((0 - (n + 1)) \div 65536) % 256),
           255 - (((0 - (n + 1)) \div 256) % 256), 255 - ((0 - (n + 1)) % 256)>>
\* The seconds since the epoch of the checked instants as IEEE-754 doubles,
\* most significant byte first: 0.0, 2.0 and 1763209800.0.
SecondsSinceEpoch ==
    << <<I64Zero, <<0, 0, 0, 0, 0, 0, 0, 0>>>>,
       <<TwoSeconds, <<64, 0, 0, 0, 0, 0, 0, 0>>>>,
       <<TestDate, <<65, 218, 70, 28, 146, 0, 0, 0>>>> >>
SecondsOf(tp) == SecondsSinceEpoch[CHOOSE k \in 1..3 : SecondsSinceEpoch[k][1] = tp][2]
ByteReversed(b) == [i \in 1..Len(b) |-> b[Len(b) + 1 - i]]
RECURSIVE Concat(_)
Concat(seqs) == IF seqs = <<>> THEN <<>> ELSE Head(seqs) \o Concat(Tail(seqs))
\* The bytes of a Value given as a tree.
RECURSIVE WireOf(_)
WireOf(tree) ==
    CASE tree.t = "Undef" -> <<33>>
      [] tree.t = "bool" -> IF tree.v THEN <<49>> ELSE <<48>>
      [] tree.t = "int32" -> <<105>> \o BigEndian32(tree.v)
      [] tree.t = "double" -> <<114>> \o tree.v
      [] tree.t = "LLDate" -> <<100>> \o ByteReversed(SecondsOf(tree.v))
      [] tree.t = "string" -> <<115>> \o BigEndian32(Len(tree.v)) \o tree.v
      [] tree.t = "URI" -> <<108>> \o BigEndian32(Len(tree.v)) \o tree.v
      [] tree.t = "Binary" -> <<98>> \o BigEndian32(Len(tree.v)) \o tree.v
      [] tree.t = "LLUUID" -> <<117>> \o tree.v
      [] tree.t = "Array" ->
            <<91>> \o BigEndian32(Len(tree.v.items))
                \o Concat([i \in 1..Len(tree.v.items) |-> WireOf(tree.v.items[i])]) \o <<93>>
      [] tree.t = "Map" ->
            <<123>> \o BigEndian32(Len(tree.v.items))
                \o Concat([i \in 1..Len(tree.v.items) |->
                              <<107>> \o BigEndian32(Len(tree.v.items[i].key))
                                  \o tree.v.items[i].key \o WireOf(tree.v.items[i].val)])
                \o <<125>>
\* format_binary wrote the Value the caller built.
BinaryWritten1 == last.op = "wrote"
JsonTextIs(text) == ~last.out.err /\ last.out.text = text

\* C20: format_binary writes the wire table's layout for every variant:
\* '!'; '1' or '0'; 'i' and 4 bytes big-endian two's complement (258 as
\* 00 00 01 02, the minimum as 80 00 00 00), which read_i32_be reads back
\* as the same Integer; 'r' and the double big-endian; 'd' and the seconds
\* since the epoch as a double byte-reversed; 's', 'l' or 'b', a length
\* and the bytes; 'u' and 16 bytes; '[' count elements ']'; '{' count
\* ('k' length key value)* '}' with the count the number of entries.
C20_WireLayout ==
    BinaryWritten1 =>
        /\ stream.data = WireOf(Contents(heap, slots["v1"]))
        /\ slots["v1"].t = "int32" =>
              read_i32_be(MakeStream(SubSeq(stream.data, 2, 5)))
                  = [err |-> FALSE, s |-> [data |-> SubSeq(stream.data, 2, 5), pos |-> 4,
                                           good |-> TRUE],
                     val |-> slots["v1"].v]
        /\ Is(slots["v1"], "int32", 258) => stream.data = <<105, 0, 0, 1, 2>>
        /\ Is(slots["v1"], "int32", 0 - 2147483647 - 1) => stream.data = <<105, 128, 0, 0, 0>>
        /\ Is(slots["v1"], "int32", 0 - 2) => stream.data = <<105, 255, 255, 255, 254>>
        /\ Is(slots["v1"], "string", <<104, 101, 108, 108, 111>>) =>
              stream.data = <<115, 0, 0, 0, 5, 104, 101, 108, 108, 111>>
        /\ Is(slots["v1"], "LLDate", TwoSeconds) => stream.data = <<100, 0, 0, 0, 0, 0, 0, 0, 64>>
        /\ JsonTextIs(<<123, 34, 107, 101, 121, 34, 58, 49, 125>>) =>
              stream.data = <<123, 0, 0, 0, 1, 107, 0, 0, 0, 3, 107, 101, 121, 105, 0, 0, 0, 1, 125>>
        /\ JsonTextIs(<<91, 49, 44, 50, 93>>) =>
              stream.data = <<91, 0, 0, 0, 2, 105, 0, 0, 0, 1, 105, 0, 0, 0, 2, 93>>
\* The Map {"key": 1} was written as { 00 00 00 01 k 00 00 00 03 k e y
\* i 00 00 00 01 }.
C20_Witness ==
    /\ BinaryWritten1
    /\ slots["v1"].t = "Map"
    /\ JsonTextIs(<<123, 34, 107, 101, 121, 34, 58, 49, 125>>)
    /\ stream.data = <<123, 0, 0, 0, 1, 107, 0, 0, 0, 3, 107, 101, 121, 105, 0, 0, 0, 1, 125>>

\* ------------------------------------------------------------------------
\* Extraction properties (SpecGet).

\* std::get was just called on the Value v1.
Extracted == last.op = "get"

\* What std::get gave agrees with the active variant of the Value.
GotMatchesVariant ==
    Extracted =>
        /\ last.kind # slots["v1"].t => last.got.err /\ last.got.t = "none"
        /\ last.kind = slots["v1"].t =>
              ~last.got.err /\ last.got.t = last.kind /\ last.got.v = slots["v1"].v
        /\ slots["v1"].t = "double" /\ last.kind = "int32" => last.got.err
        /\ slots["v1"].t = "int32" /\ last.kind = "double" => last.got.err
        /\ slots["v1"].t = "URI" /\ last.kind = "string" => last.got.err
        /\ slots["v1"].t = "string" /\ last.kind = "URI" => last.got.err
\* A step that extracts leaves every Value and everything it owns.
ExtractLeavesValue ==
    last'.op = "get" =>
        /\ slots'["v1"].t = slots["v1"].t
        /\ Contents(heap', slots'["v1"]) = Contents(heap, slots["v1"])
        /\ slots' = slots
        /\ heap' = heap

\* C21: extracting a variant fails with a type-mismatch error, and leaves
\* the Value unchanged, whenever the type asked for is not the active
\* variant, and gives the stored payload when it is; no extraction
\* converts between variants: an Integer is never given for a Real, a
\* String never for a URI.
C21_Extraction == []GotMatchesVariant /\ [][ExtractLeavesValue]_vars
\* std::get<std::string> on a Value holding the URI http://example.com
\* failed, and the Value still holds the URI.
C21_Witness ==
    /\ Extracted
    /\ slots["v1"].t = "URI"
    /\ Len(slots["v1"].v) = 18
    /\ last.kind = "string"
    /\ last.got.err

\* ------------------------------------------------------------------------
\* Further binary codec properties (SpecBin).

\* Call k of parse_binary began where the stream has no byte left.
NoByteForTag(k) ==
    /\ calls[k].fn = "parse_binary"
    /\ calls[k].from >= Len(stream.data)

\* C22: parse_binary called when no byte is available for a tag fails with
\* an error, and returns no Value made from a tag it did not read.
C22_NoTagFails ==
    \A k \in 1..Len(calls) : NoByteForTag(k) => calls[k].err /\ calls[k].val.t = "dead"

\* ------------------------------------------------------------------------
\* JSON numbers (SpecJson).

\* parse_json read a number literal of the caller.
NumberParsed == last.op = "scanned"
\* An integral number: digits with an optional minus sign, no point and
\* no exponent.
IsIntegralText(text) ==
    /\ text # <<>>
    /\ AllIn(text, IF text[1] = 45 THEN 2 ELSE 1, Len(text), 48..57)
    /\ Len(text) > (IF text[1] = 45 THEN 1 ELSE 0)
\* The digits' value modulo 2^32, kept as two 16-bit halves [hi, lo].
RECURSIVE Low32(_)
Low32Step(w, d) ==
    [hi |-> (w.hi * 10 + ((w.lo * 10 + d) \div 65536)) % 65536, lo |-> (w.lo * 10 + d) % 65536]
Low32(ds) ==
    IF ds = <<>> THEN [hi |-> 0, lo |-> 0]
    ELSE Low32Step(Low32(SubSeq(ds, 1, Len(ds) - 1)), ds[Len(ds)] - 48)
Low32Negated(w) ==
    IF w.lo = 0 THEN [hi |-> (65536 - w.hi) % 65536, lo |-> 0]
    ELSE [hi |-> 65535 - w.hi, lo |-> 65536 - w.lo]
Signed32(w) == (IF w.hi >= 32768 THEN w.hi - 65536 ELSE w.hi) * 65536 + w.lo
\* The integral number of the text wrapped modulo 2^32 into the signed
\* range; a number within the range is itself.
Wrapped32(text) ==
    IF text[1] = 45 THEN Signed32(Low32Negated(Low32(SubSeq(text, 2, Len(text)))))
    ELSE Signed32(Low32(text))
\* The doubles nearest to the checked literals, most significant byte
\* first.
NearestDoubles ==
    << <<<<49, 56, 52, 52, 54, 55, 52, 52, 48, 55, 51, 55, 48, 57, 53, 53, 49, 54, 49, 54>>, <<67, 240, 0, 0, 0, 0, 0, 0>>>>,
       <<<<45, 57, 50, 50, 51, 51, 55, 50, 48, 51, 54, 56, 53, 52, 55, 55, 53, 56, 48, 57>>, <<195, 224, 0, 0, 0, 0, 0, 0>>>>,
       <<<<49, 48, 48, 48, 48, 48, 48, 48, 48, 48, 48, 48, 48, 48, 48, 48, 48, 48, 48, 48, 48>>, <<68, 21, 175, 29, 120, 181, 140, 64>>>>,
       <<<<49, 46, 48>>, <<63, 240, 0, 0, 0, 0, 0, 0>>>>,
       <<<<50, 46, 53>>, <<64, 4, 0, 0, 0, 0, 0, 0>>>>,
       <<<<45, 48, 46, 53>>, <<191, 224, 0, 0, 0, 0, 0, 0>>>>,
       <<<<49, 101, 50>>, <<64, 89, 0, 0, 0, 0, 0, 0>>>>,
       <<<<48, 46, 49>>, <<63, 185, 153, 153, 153, 153, 153, 154>>>>,
       <<<<51, 46, 49, 52>>, <<64, 9, 30, 184, 81, 235, 133, 31>>>>,
       <<<<49, 46, 53, 101, 51>>, <<64, 151, 112, 0, 0, 0, 0, 0>>>>,
       <<<<48, 46, 48>>, <<0, 0, 0, 0, 0, 0, 0, 0>>>>,
       <<<<45, 48, 46, 48>>, <<128, 0, 0, 0, 0, 0, 0, 0>>>>,
       <<<<50, 49, 52, 55, 52, 56, 51, 54, 52, 56, 46, 48>>, <<65, 224, 0, 0, 0, 0, 0, 0>>>>,
       <<<<57, 48, 48, 55, 49, 57, 57, 50, 53, 52, 55, 52, 48, 57, 57, 51, 46, 48>>, <<67, 64, 0, 0, 0, 0, 0, 0>>>> >>
IsNearestDouble(text, bits) ==
    \E k \in 1..Len(NearestDoubles) : NearestDoubles[k][1] = text /\ NearestDoubles[k][2] = bits
NumberTextIs(text) == NumberParsed /\ last.out.text = text

\* C23: parse_json makes of every integral number within the signed
\* 32-bit range the Integer of that value and of every non-integral number
\* a Real; an integral number outside the range is accepted and gives the
\* Integer of its low 32 bits (2147483648 gives -2147483648, 4294967297
\* gives 1), never a Real.
C23_NumberConversion ==
    NumberParsed =>
        /\ ~calls[1].err
        /\ IsIntegralText(last.out.text) =>
              Is(slots["v2"], "int32", Wrapped32(last.out.text))
        /\ ~IsIntegralText(last.out.text) =>
              slots["v2"].t = "double" /\ IsNearestDouble(last.out.text, slots["v2"].v)
        /\ NumberTextIs(<<50, 49, 52, 55, 52, 56, 51, 54, 52, 55>>) => Is(slots["v2"], "int32", 2147483647)
        /\ NumberTextIs(<<45, 50, 49, 52, 55, 52, 56, 51, 54, 52, 56>>) =>
              Is(slots["v2"], "int32", 0 - 2147483647 - 1)
        /\ NumberTextIs(<<50, 49, 52, 55, 52, 56, 51, 54, 52, 56>>) =>
              Is(slots["v2"], "int32", 0 - 2147483647 - 1)
        /\ NumberTextIs(<<45, 50, 49, 52, 55, 52, 56, 51, 54, 52, 57>>) => Is(slots["v2"], "int32", 2147483647)
        /\ NumberTextIs(<<52, 50, 57, 52, 57, 54, 55, 50, 57, 55>>) => Is(slots["v2"], "int32", 1)
        /\ NumberTextIs(<<49, 56, 52, 52, 54, 55, 52, 52, 48, 55, 51, 55, 48, 57, 53, 53, 49, 54, 49, 53>>) => Is(slots["v2"], "int32", 0 - 1)

\* ------------------------------------------------------------------------
\* Maps with repeated or unordered keys (SpecBin).

\* The entries of the Map written first, and where entry i and its key sit
\* in the encoding, counted from 0: '{', the count, then for every entry
\* 'k', the key's length, the key and the value.
WrittenEntries == Contents(heap, Source(1)).v.items
RECURSIVE EntryStart(_)
EntryStart(i) ==
    IF i = 1 THEN 5
    ELSE EntryStart(i - 1) + 5 + Len(WrittenEntries[i - 1].key)
             + Len(WireOf(WrittenEntries[i - 1].val))
KeyPlaces(i) == (EntryStart(i) + 5)..(EntryStart(i) + 4 + Len(WrittenEntries[i].key))
\* One byte of a key of the written Map was altered, and the stream read.
KeyAltered ==
    /\ last.op = "damage"
    /\ Source(1).t = "Map" /\ Source(1).v # Null
    /\ \E i \in 1..Len(WrittenEntries) : last.at \in KeyPlaces(i)
    /\ Len(calls) >= 1 /\ calls[1].fn = "parse_binary"
\* The keys the stream lists, in the order it lists them.
ListedKey(i) ==
    [p \in 1..Len(WrittenEntries[i].key) |->
        IF last.at = EntryStart(i) + 4 + p THEN last.byte ELSE WrittenEntries[i].key[p]]
\* Ascending order of keys: bytewise, a proper prefix first.
Precedes(x, y) ==
    \E k \in 1..(Len(y)) :
        /\ \A j \in 1..(k - 1) : j <= Len(x) /\ x[j] = y[j]
        /\ Len(x) >= k - 1
        /\ (Len(x) = k - 1 \/ x[k] < y[k])
ListedAscending ==
    \A i \in 1..(Len(WrittenEntries) - 1) : Precedes(ListedKey(i), ListedKey(i + 1))
\* The entries that are the last occurrence of their key, and the place of
\* each among them in ascending key order.
LastOccurrences ==
    {i \in 1..Len(WrittenEntries) :
        \A j \in (i + 1)..Len(WrittenEntries) : ListedKey(j) # ListedKey(i)}
PlaceOf(i) == 1 + Cardinality({j \in LastOccurrences : Precedes(ListedKey(j), ListedKey(i))})
EntryPlaced(r) == CHOOSE i \in LastOccurrences : PlaceOf(i) = r
ExpectedMap ==
    [t |-> "Map",
     v |-> [null |-> FALSE,
            items |-> [r \in 1..Cardinality(LastOccurrences) |->
                          [key |-> ListedKey(EntryPlaced(r)),
                           val |-> WrittenEntries[EntryPlaced(r)].val]]]]
\* The Map parse_binary returned and what format_binary writes for it.
ParsedEntries == heap[calls[1].val.v].items
Reformatted == format_binary(heap, calls[1].val)

\* C24: when a binary Map repeats a key or lists keys out of order,
\* parse_binary succeeds and returns a Map with each key once, holding the
\* value of the key's last occurrence, its size the number of distinct
\* keys; format_binary of it writes the entries in ascending key order with
\* that count, and so gives the bytes read again only when the keys listed
\* were unique and ascending.
C24_RepeatedAndUnorderedKeys ==
    KeyAltered =>
        /\ ~calls[1].err
        /\ calls[1].val.t = "Map"
        /\ Len(ParsedEntries) = Cardinality({ListedKey(i) : i \in 1..Len(WrittenEntries)})
        /\ \A r \in 1..Len(ParsedEntries) :
              /\ r < Len(ParsedEntries) =>
                    Precedes(ParsedEntries[r].key, ParsedEntries[r + 1].key)
              /\ ParsedEntries[r].key = ListedKey(EntryPlaced(r))
        /\ Reformatted = WireOf(ExpectedMap)
        /\ SubSeq(Reformatted, 2, 5) = BigEndian32(Cardinality(LastOccurrences))
        /\ Reformatted = stream.data =>
              ListedAscending /\ Cardinality(LastOccurrences) = Len(WrittenEntries)
\* The stream listed the key "n" twice, first with the Integer 1 and then
\* with a Date: the Map returned has the one entry "n" holding the Date.
C24_Witness ==
    /\ KeyAltered
    /\ Len(WrittenEntries) = 2
    /\ ListedKey(1) = <<110>> /\ ListedKey(2) = <<110>>
    /\ ~calls[1].err
    /\ Len(ParsedEntries) = 1
    /\ ParsedEntries[1].key = <<110>>
    /\ ParsedEntries[1].val.t = "LLDate"
    /\ Reformatted # stream.data

\* ------------------------------------------------------------------------
\* The recovery patterns (SpecStr).

\* parse_json read the JSON string last.str.
StringRecovered == last.op = "recovered"
\* The three checks of from_json: the prefix test and the two matchers.
Checks == {"base64", "uuid", "date"}
Passes(check, str) ==
    CASE check = "base64" -> BeginsDataBase64(str)
      [] check = "uuid" -> MatchesUUID(str)
      [] check = "date" -> MatchesDate(str)
KindOf(check) ==
    CASE check = "base64" -> "Binary"
      [] check = "uuid" -> "LLUUID"
      [] check = "date" -> "LLDate"
\* The orders in which three checks can be tried, and the kind a string is
\* given when they are tried in that order.
Orderings == {o \in [1..3 -> Checks] : \A c \in Checks : \E i \in 1..3 : o[i] = c}
ClassifiedIn(o, str) ==
    IF Passes(o[1], str) THEN KindOf(o[1])
    ELSE IF Passes(o[2], str) THEN KindOf(o[2])
    ELSE IF Passes(o[3], str) THEN KindOf(o[3])
    ELSE "string"

\* C25: the three recovery patterns are pairwise disjoint: no string begins
\* with data:base64, and matches the UUID or the date pattern, none matches
\* the UUID and the date pattern; the kind a string is recovered as is
\* therefore the same in whatever order the three checks are tried.
C25_PatternsDisjoint ==
    StringRecovered =>
        /\ \A c, d \in Checks : Passes(c, last.str) /\ Passes(d, last.str) => c = d
        /\ ~(BeginsDataBase64(last.str) /\ IsUUIDText(last.str))
        /\ ~(BeginsDataBase64(last.str) /\ IsDateText(last.str))
        /\ ~(IsUUIDText(last.str) /\ IsDateText(last.str))
        /\ \A o \in Orderings : ClassifiedIn(o, last.str) = slots["v2"].t
\* The string data:base64, followed by a date text was recovered as a
\* Binary: it passes the prefix test and neither matcher.
C25_Witness ==
    /\ StringRecovered
    /\ last.str = Beginnings[2] \o Middles[4]
    /\ slots["v2"].t = "Binary"
    /\ ~MatchesDate(last.str) /\ ~MatchesUUID(last.str)

====
